---- MODULE Spec2Model ----
(***************************************************************************)
(* A model of go-rate-limiter: the token-bucket stores (pkg/backend: the   *)
(* in-memory store and the Redis store), the RateLimiter facade            *)
(* (pkg/limiter) and the legacy limiter package (limiter/).                *)
(*                                                                         *)
(* Goroutines are the processes Procs.  A call is split into the steps at  *)
(* which it touches shared state: every critical section of a bucket's     *)
(* mutex is one step, every sync.Map call is one step, every Redis command *)
(* is one step.  Time is an integer count of milliseconds.                 *)
(*                                                                         *)
(* The bucket fields Key, NextRefill and ResetTime are written but never   *)
(* read by the stores; they are left out of the bucket record.  A Redis    *)
(* key's expiry (24 hours) lies beyond any run of the model: the hash      *)
(* records only whether an expiry is set.                                  *)
(***************************************************************************)
EXTENDS Integers, Sequences, FiniteSets, TLC

\* ------------------------------------------------------------ bounds
NumProcs == 2
MaxLimit == 2
MaxRefill == 2
MaxCleanup == 1
MaxMs == 3
MaxSec == 1
MaxPolls == 2
MaxCopies == 2
SlowRefill == 3

\* ------------------------------------------------- program constants
MaxKeyLen == 256
MsPerSecond == 1000
TokenCeilingFactor == 10

Procs == 1..NumProcs
Keys == {"a", "b"}
EmptyKey == ""
LongKey == "long"
Ids == 1..(Cardinality(Keys) + NumProcs)
NoBucket == 0

KeyLen(k) == IF k = EmptyKey THEN 0 ELSE IF k = LongKey THEN MaxKeyLen + 1 ELSE 1

ZeroBucket == [Tokens |-> 0, MaxTokens |-> 0, RefillRate |-> 0, LastRefill |-> 0]

\* A Redis hash; -1 and "none" stand for a field that is not set.
NoHash == [tokens |-> -1, max_tokens |-> -1, refill_rate |-> -1, last_refill |-> -1,
           lrKind |-> "none", expires |-> FALSE]

VARIABLES
  now,          \* wall clock, in milliseconds
  opts,         \* the validated Options the store was built with
  kind,         \* which store is in use: "mem", "redis" or "legacy"
  fcfg,         \* RateLimiter.config
  cfgs,         \* the Config objects GetConfig has allocated, by pointer
  store,        \* inMemoryBackend.store: key -> bucket pointer (NoBucket: absent)
  heap,         \* the bucket objects, by pointer
  mclosed,      \* inMemoryBackend.closed
  stopCleanup,  \* how many times close(stopCleanup) ran
  bmu,          \* inMemoryBackend.mu: the goroutine holding it (0: free)
  tickerStopped,\* cleanupTicker.Stop() ran
  tickPending,  \* a tick left in cleanupTicker.C when the ticker stopped
  sweep,        \* the cleanup goroutine
  rdb,          \* the Redis server: key -> hash
  rclosed,      \* redisBackend.closed
  rclientCloses,\* how many times client.Close() ran
  fclosed,      \* RateLimiter.closed
  readers,      \* the goroutines holding RateLimiter.mu for reading
  writer,       \* the goroutine holding RateLimiter.mu for writing (0: none)
  pc,           \* each goroutine's position
  op,           \* the call each goroutine is making
  call,         \* the Backend method in progress
  bkt,          \* the goroutine's local bucket pointer
  tnow,         \* the goroutine's local reading of the clock
  ret,          \* the result of its last call
  ncalls,       \* history: Backend methods the current call has invoked
  late,         \* history: the call began on an object already closed
  reg,          \* the tokens the goroutine read at the legacy Take's comparison
  seen,         \* history: what a Take found when it read the bucket and the clock
  born,         \* history: when the key's bucket was made
  closeCalls,   \* history: Backend.Close invocations made by the facade
  flips,        \* history: times RateLimiter.closed went from false to true
  granted,      \* history: tokens granted from the key's bucket
  minted,       \* history: tokens the Redis script's refills added to the key
  prior         \* history: the call the goroutine made before its current one

envVars == <<now, opts, kind, fcfg, cfgs>>
closeVars == <<mclosed, stopCleanup, bmu, tickerStopped>>
sweepVars == <<tickPending, sweep>>
memVars == <<store, heap, closeVars, sweepVars>>
redisVars == <<rdb, rclosed, rclientCloses>>
ctlVars == <<pc, ret, call, readers, writer, ncalls>>
localVars == <<op, bkt, tnow, late, reg>>
histVars == <<closeCalls, flips, granted, minted, seen, born, prior>>
vars == <<now, opts, kind, fcfg, cfgs, store, heap, mclosed, stopCleanup, bmu, tickerStopped,
          tickPending, sweep, rdb, rclosed, rclientCloses, fclosed, readers, writer,
          pc, op, call, bkt, tnow, ret, ncalls, late, reg, seen, born, closeCalls, flips,
          granted, minted, prior>>

NoOp == [name |-> "none", layer |-> "backend", key |-> "a", tokens |-> 0,
         limit |-> 0, refill |-> 0, ctx |-> "live"]
NoRet == [err |-> "none", allowed |-> FALSE, info |-> ZeroBucket]

Ok(allowed) == [err |-> "nil", allowed |-> allowed, info |-> ZeroBucket]
Err(e) == [err |-> e, allowed |-> FALSE, info |-> ZeroBucket]
Info(b) == [err |-> "nil", allowed |-> FALSE, info |-> b]

\* No call was made before.
NoPrior == [name |-> "none", limit |-> 0, refill |-> 0, ok |-> FALSE, had |-> -1, at |-> 0,
            cur |-> -1, curAt |-> 0]

\* What a Take found: the bucket's capacity, whether a refill interval had
\* elapsed since the bucket's refill mark, and whether less than one interval
\* had elapsed since the bucket was made.
NoSight == [max |-> 0, due |-> FALSE, young |-> FALSE]
Sight(b, t, made) ==
  [max |-> b.MaxTokens, due |-> t - b.LastRefill >= b.RefillRate,
   young |-> t - made < b.RefillRate]

Min(a, b) == IF a < b THEN a ELSE b

\* Go's integer division truncates toward zero.
GoDiv(a, b) == IF a >= 0 THEN a \div b ELSE -((-a) \div b)

\* time.Time.Unix(): whole seconds.
Unix(t) == t \div MsPerSecond

\* ------------------------------------------------- pkg/backend, in memory
validateKey(k) == KeyLen(k) # 0 /\ KeyLen(k) <= MaxKeyLen

validateTokens(n) == n > 0

\* A refill that adds the tokens and leaves the refill mark where it was.
refillTokensKeepsMark(b, t) ==
  LET elapsed == t - b.LastRefill
      tokensToAdd == GoDiv(elapsed, b.RefillRate)
  IN IF tokensToAdd > 0
       THEN [b EXCEPT !.Tokens = Min(b.MaxTokens, b.Tokens + tokensToAdd)]
       ELSE b

\* bucket.refillTokens at time t.
refillTokens(b, t) ==
  LET elapsed == t - b.LastRefill
      tokensToAdd == GoDiv(elapsed, b.RefillRate)
  IN IF tokensToAdd > 0
       THEN [b EXCEPT !.Tokens = Min(b.MaxTokens, b.Tokens + tokensToAdd),
                      !.LastRefill = t]
       ELSE b

\* The critical section of Take: the compare, and the bucket it leaves.
hasTokens(b, n) == b.Tokens >= n

consumePartial(b, n) ==
  IF hasTokens(b, n) THEN [b EXCEPT !.Tokens = b.Tokens - n] ELSE [b EXCEPT !.Tokens = 0]

consume(b, n) == IF hasTokens(b, n) THEN [b EXCEPT !.Tokens = b.Tokens - n] ELSE b

\* The critical section of SetLimit.
setLimit(b, limit, refill) == [b EXCEPT !.MaxTokens = limit, !.RefillRate = refill]

\* The bucket getOrCreateBucket builds for a key that is not in the map.
newBucket(o, t) ==
  [Tokens |-> o.DefaultLimit, MaxTokens |-> o.DefaultLimit,
   RefillRate |-> o.DefaultRefill, LastRefill |-> t]

\* Bucket objects no pointer reaches are garbage.
Reach(s, b) == {s[k] : k \in Keys} \cup {b[p] : p \in Procs}
Collect(h, s, b) == [i \in Ids |-> IF i \in Reach(s, b) THEN h[i] ELSE ZeroBucket]
FreeId(s, b) ==
  CHOOSE i \in Ids : i \notin Reach(s, b) /\ \A j \in Ids : j < i => j \in Reach(s, b)

\* ------------------------------------------------- pkg/backend, Redis
\* The fields as the Take script reads them (HMGET, tonumber(..) or default);
\* t is ARGV[4], in seconds; a last_refill that is no number reads as t.
ScriptLoad(h, maxArg, rateArg, t) ==
  [tokens |-> IF h.tokens = -1 THEN maxArg ELSE h.tokens,
   max_tokens |-> IF h.max_tokens = -1 THEN maxArg ELSE h.max_tokens,
   refill_rate |-> IF h.refill_rate = -1 THEN rateArg ELSE h.refill_rate,
   last_refill |-> IF h.lrKind = "num" THEN h.last_refill ELSE t]

\* The script's four locals, as a bucket (last_refill in seconds).
BucketOfScript(s) ==
  [Tokens |-> s.tokens, MaxTokens |-> s.max_tokens, RefillRate |-> s.refill_rate,
   LastRefill |-> s.last_refill]

\* The script's refill: math.floor(time_elapsed / bucket_refill_rate).
ScriptRefill(s, t) ==
  LET tokens_to_add == (t - s.last_refill) \div s.refill_rate
  IN IF tokens_to_add > 0
       THEN [s EXCEPT !.tokens = Min(s.max_tokens, s.tokens + tokens_to_add),
                      !.last_refill = t]
       ELSE s

TakeScriptStale(h, n, maxArg, rateArg, t) ==
  LET s == ScriptRefill(ScriptLoad(h, maxArg, rateArg, t), t)
  IN IF s.tokens >= n
       THEN [hash |-> [tokens |-> s.tokens, max_tokens |-> s.max_tokens,
                       refill_rate |-> s.refill_rate, last_refill |-> s.last_refill,
                       lrKind |-> "num", expires |-> TRUE],
             result |-> 1]
       ELSE [hash |-> h, result |-> 0]

\* The hash the script leaves and the number it returns.
TakeScript(h, n, maxArg, rateArg, t) ==
  LET s == ScriptRefill(ScriptLoad(h, maxArg, rateArg, t), t)
  IN IF s.tokens >= n
       THEN [hash |-> [tokens |-> s.tokens - n, max_tokens |-> s.max_tokens,
                       refill_rate |-> s.refill_rate, last_refill |-> s.last_refill,
                       lrKind |-> "num", expires |-> TRUE],
             result |-> 1]
       ELSE [hash |-> h, result |-> 0]

\* What the script minted on the way to a grant.
ScriptMinted(h, maxArg, rateArg, t) ==
  ScriptRefill(ScriptLoad(h, maxArg, rateArg, t), t).tokens
    - ScriptLoad(h, maxArg, rateArg, t).tokens

\* SetLimit's HMSET: the policy fields and an RFC3339 last_refill.
SetLimitHash(h, limit, refill, t) ==
  [h EXCEPT !.max_tokens = limit, !.refill_rate = refill,
            !.last_refill = Unix(t), !.lrKind = "str"]

\* GetInfo's reading of HMGET's reply (an absent key replies with nils, no error).
InfoOfHash(h, o, t) ==
  [Tokens |-> IF h.tokens = -1 THEN 0 ELSE h.tokens,
   MaxTokens |-> IF h.max_tokens \in {-1, 0} THEN o.DefaultLimit ELSE h.max_tokens,
   RefillRate |-> IF h.refill_rate \in {-1, 0} THEN o.DefaultRefill ELSE h.refill_rate,
   LastRefill |-> IF h.lrKind = "str" THEN h.last_refill * MsPerSecond ELSE t]

\* ------------------------------------------------------------- Init
OptionSets ==
  [DefaultLimit : 1..MaxLimit, DefaultRefill : 1..MaxRefill, CleanupInterval : 1..MaxCleanup]

InitCommon ==
  /\ now = 0
  /\ opts \in OptionSets
  /\ fcfg = [DefaultLimit |-> opts.DefaultLimit]
  /\ cfgs = <<>>
  /\ store = [k \in Keys |-> NoBucket]
  /\ heap = [i \in Ids |-> ZeroBucket]
  /\ mclosed = FALSE
  /\ stopCleanup = 0
  /\ bmu = 0
  /\ tickerStopped = FALSE
  /\ tickPending = FALSE
  /\ sweep = [pc |-> "wait", cutoff |-> 0, todo |-> {}, victim |-> "a"]
  /\ rdb = [k \in Keys |-> NoHash]
  /\ rclosed = FALSE
  /\ rclientCloses = 0
  /\ fclosed = FALSE
  /\ readers = {}
  /\ writer = 0
  /\ pc = [p \in Procs |-> "idle"]
  /\ op = [p \in Procs |-> NoOp]
  /\ call = [p \in Procs |-> "none"]
  /\ bkt = [p \in Procs |-> NoBucket]
  /\ tnow = [p \in Procs |-> 0]
  /\ ret = [p \in Procs |-> NoRet]
  /\ ncalls = [p \in Procs |-> 0]
  /\ late = [p \in Procs |-> FALSE]
  /\ reg = [p \in Procs |-> 0]
  /\ seen = [p \in Procs |-> NoSight]
  /\ born = [k \in Keys |-> 0]
  /\ closeCalls = 0
  /\ flips = 0
  /\ granted = [k \in Keys |-> 0]
  /\ minted = [k \in Keys |-> 0]
  /\ prior = [p \in Procs |-> NoPrior]

\* ------------------------------------------------- package errors
\* The error values: the dynamic type, and the error it wraps.
ErrInvalidTokens == [type |-> "*ValidationError", wraps |-> "nothing"]
ErrInvalidKey == [type |-> "*ValidationError", wraps |-> "nothing"]
ErrBackendUnavailable == [type |-> "*BackendError", wraps |-> "nothing"]
CtxErr == [type |-> "*errors.errorString", wraps |-> "nothing"]

\* Wrap: fmt.Errorf("%s: %w", message, err).
Wrap(err) == [type |-> "*fmt.wrapError", wraps |-> err.type]

\* IsValidationError and IsBackendError: the type assertions err.(*ValidationError)
\* and err.(*BackendError).
IsValidationError(err) == err.type = "*ValidationError"
IsBackendError(err) == err.type = "*BackendError"

\* The error value that a method returns for each kind of refusal: every one
\* is built by Wrap.
ErrorValue(e) ==
  IF e = "validation" THEN Wrap(ErrInvalidTokens)
  ELSE IF e = "unavailable" THEN Wrap(ErrBackendUnavailable)
  ELSE Wrap(CtxErr)

\* ------------------------------------------------- calls and returns
Idle(p) == pc[p] \in {"idle", "done"}

BackendClosed == IF kind = "mem" THEN mclosed ELSE IF kind = "redis" THEN rclosed ELSE FALSE

\* Goroutine p makes the call o: a method of the facade or of the store.
Call(p, o) ==
  /\ Idle(p)
  /\ op' = [op EXCEPT ![p] = o]
  /\ ret' = [ret EXCEPT ![p] = NoRet]
  /\ ncalls' = [ncalls EXCEPT ![p] = 0]
  /\ late' = [late EXCEPT ![p] = IF o.layer = "facade" THEN fclosed ELSE BackendClosed]
  /\ call' = [call EXCEPT ![p] = IF o.layer = "facade" THEN "none" ELSE o.name]
  /\ pc' = [pc EXCEPT ![p] = IF o.layer = "facade"
                               THEN (IF o.name = "Wait" THEN "w_select" ELSE "f_start")
                               ELSE (IF kind = "legacy" THEN "l_start" ELSE "b_start")]
  /\ UNCHANGED <<envVars, memVars, redisVars, fclosed, readers, writer, bkt, tnow, reg>>

Begin(p, o) == Call(p, o) /\ UNCHANGED histVars

\* The tokens stored under key k (-1: the store holds nothing for k).
StoredTokens(k) ==
  IF kind = "redis" THEN rdb[k].tokens
  ELSE IF store[k] = NoBucket THEN -1 ELSE heap[store[k]].Tokens

\* Goroutine p makes the call o and the history keeps the call it made before:
\* its name and arguments, whether it returned nil, the tokens its key held
\* and the time when it began (had, at), and the same two for o (cur, curAt).
Then(p, o) ==
  /\ Call(p, o)
  /\ prior' = [prior EXCEPT ![p] =
                 [name |-> op[p].name, limit |-> op[p].limit, refill |-> op[p].refill,
                  ok |-> ret[p].err = "nil", had |-> prior[p].cur, at |-> prior[p].curAt,
                  cur |-> StoredTokens(o.key), curAt |-> now]]
  /\ UNCHANGED <<closeCalls, flips, granted, minted, seen, born>>

Goto(p, l) ==
  /\ pc' = [pc EXCEPT ![p] = l]
  /\ UNCHANGED <<ret, call, readers, writer, ncalls>>

\* A method that returns without releasing r.mu.
FinishHoldsLock(p, r) ==
  /\ pc' = [pc EXCEPT ![p] = "done"]
  /\ ret' = [ret EXCEPT ![p] = r]
  /\ call' = [call EXCEPT ![p] = "none"]
  /\ UNCHANGED <<readers, writer, ncalls>>

\* The call of p is over: its locks on RateLimiter.mu are released (the defers).
Finish(p, r) ==
  /\ pc' = [pc EXCEPT ![p] = "done"]
  /\ ret' = [ret EXCEPT ![p] = r]
  /\ call' = [call EXCEPT ![p] = "none"]
  /\ readers' = readers \ {p}
  /\ writer' = IF writer = p THEN 0 ELSE writer
  /\ UNCHANGED ncalls

\* The facade invokes Backend method m.
CallBackend(p, m) ==
  /\ pc' = [pc EXCEPT ![p] = "b_start"]
  /\ call' = [call EXCEPT ![p] = m]
  /\ ncalls' = [ncalls EXCEPT ![p] = @ + 1]
  /\ UNCHANGED ret

\* IsAllowed's answer from GetInfo's snapshot: info.Tokens >= tokens.
isAllowed(info, n) == info.Tokens >= n

\* A Backend method returns r: to the caller, or to the facade method that
\* invoked it (TakeWithLimit, IsAllowed and Wait go on from there).
Return(p, r) ==
  LET o == op[p] IN
  IF o.layer = "facade" /\ o.name = "TakeWithLimit" /\ call[p] = "SetLimit" /\ r.err = "nil"
    THEN CallBackend(p, "Take") /\ UNCHANGED <<readers, writer>>
  ELSE IF o.layer = "facade" /\ o.name = "IsAllowed" /\ r.err = "nil"
    THEN Finish(p, [Ok(isAllowed(r.info, o.tokens)) EXCEPT !.info = r.info])
  ELSE IF o.layer = "facade" /\ o.name = "Wait" /\ r.err = "nil"
    THEN IF isAllowed(r.info, o.tokens)
           THEN Finish(p, Ok(TRUE))
           ELSE /\ pc' = [pc EXCEPT ![p] = "w_select"]
                /\ call' = [call EXCEPT ![p] = "none"]
                /\ readers' = readers \ {p}
                /\ UNCHANGED <<ret, writer, ncalls>>
  ELSE Finish(p, r)

\* ------------------------------------------------- in-memory store
\* The checks a method makes before it touches a bucket, in the method's order.
MemEntry(c, o) ==
  IF mclosed THEN "unavailable"
  ELSE IF c \in {"Take", "Reset", "GetInfo", "SetLimit"} /\ ~validateKey(o.key) THEN "validation"
  ELSE IF c = "Take" /\ ~validateTokens(o.tokens) THEN "validation"
  ELSE IF c = "SetLimit" /\ (o.limit <= 0 \/ o.refill <= 0) THEN "validation"
  ELSE IF c \in {"Take", "GetInfo", "HealthCheck"} /\ o.ctx = "cancelled" THEN "cancelled"
  ELSE "nil"

MemStart(p) ==
  /\ kind = "mem"
  /\ pc[p] = "b_start"
  /\ call[p] \in {"Take", "Reset", "GetInfo", "SetLimit", "HealthCheck"}
  /\ LET e == MemEntry(call[p], op[p]) IN
       IF e # "nil" THEN Return(p, Err(e))
       ELSE IF call[p] = "HealthCheck" THEN Return(p, Ok(FALSE))
       ELSE Goto(p, IF call[p] = "Reset" THEN "b_delete" ELSE "b_load")
  /\ UNCHANGED <<envVars, memVars, redisVars, fclosed, localVars, histVars>>

\* getOrCreateBucket: store.Load(key); on a miss the new bucket is built.
MemLoad(p) ==
  /\ pc[p] = "b_load"
  /\ LET k == op[p].key IN
       IF store[k] # NoBucket
         THEN /\ bkt' = [bkt EXCEPT ![p] = store[k]]
              /\ Goto(p, IF call[p] = "SetLimit" THEN "b_set" ELSE "b_refill")
              /\ UNCHANGED heap
         ELSE LET i == FreeId(store, bkt) IN
              /\ bkt' = [bkt EXCEPT ![p] = i]
              /\ heap' = [heap EXCEPT ![i] = newBucket(opts, now)]
              /\ Goto(p, "b_store")
  /\ UNCHANGED <<envVars, store, closeVars, sweepVars, redisVars, fclosed, op, tnow, late, reg,
                 histVars>>

\* getOrCreateBucket: store.Store(key, newBucket).
MemStore(p) ==
  /\ pc[p] = "b_store"
  /\ store' = [store EXCEPT ![op[p].key] = bkt[p]]
  /\ heap' = Collect(heap, store', bkt)
  /\ born' = [born EXCEPT ![op[p].key] = heap[bkt[p]].LastRefill]
  /\ granted' = [granted EXCEPT ![op[p].key] = 0]
  /\ Goto(p, IF call[p] = "SetLimit" THEN "b_set" ELSE "b_refill")
  /\ UNCHANGED <<envVars, closeVars, sweepVars, redisVars, fclosed, localVars,
                 closeCalls, flips, minted, seen, prior>>

\* bkt.refillTokens(), under the bucket's lock.
MemRefill(p) ==
  /\ pc[p] = "b_refill"
  /\ heap' = [heap EXCEPT ![bkt[p]] = refillTokens(heap[bkt[p]], now)]
  /\ seen' = [seen EXCEPT ![p] = IF call[p] = "Take"
                                   THEN Sight(heap[bkt[p]], now, born[op[p].key])
                                   ELSE NoSight]
  /\ Goto(p, IF call[p] = "Take" THEN "b_consume" ELSE "b_read")
  /\ UNCHANGED <<envVars, store, closeVars, sweepVars, redisVars, fclosed, localVars,
                 closeCalls, flips, granted, minted, born, prior>>

\* Take: the compare and the decrement, under the bucket's lock.
MemConsume(p) ==
  /\ pc[p] = "b_consume"
  /\ LET b == heap[bkt[p]] IN
       /\ bkt' = [bkt EXCEPT ![p] = NoBucket]
       /\ heap' = Collect([heap EXCEPT ![bkt[p]] = consume(b, op[p].tokens)], store, bkt')
       /\ granted' = [granted EXCEPT ![op[p].key] =
                         @ + IF hasTokens(b, op[p].tokens) THEN op[p].tokens ELSE 0]
       /\ Return(p, Ok(hasTokens(b, op[p].tokens)))
  /\ UNCHANGED <<envVars, store, closeVars, sweepVars, redisVars, fclosed, op, tnow, late, reg,
                 closeCalls, flips, minted, seen, born, prior>>

\* GetInfo: the snapshot, under the bucket's read lock.
MemRead(p) ==
  /\ pc[p] = "b_read"
  /\ bkt' = [bkt EXCEPT ![p] = NoBucket]
  /\ heap' = Collect(heap, store, bkt')
  /\ Return(p, Info(heap[bkt[p]]))
  /\ UNCHANGED <<envVars, store, closeVars, sweepVars, redisVars, fclosed, op, tnow, late, reg,
                 histVars>>

\* SetLimit: the assignments, under the bucket's lock.
MemSet(p) ==
  /\ pc[p] = "b_set"
  /\ bkt' = [bkt EXCEPT ![p] = NoBucket]
  /\ heap' = Collect([heap EXCEPT ![bkt[p]] = setLimit(heap[bkt[p]], op[p].limit, op[p].refill)],
                     store, bkt')
  /\ Return(p, Ok(FALSE))
  /\ UNCHANGED <<envVars, store, closeVars, sweepVars, redisVars, fclosed, op, tnow, late, reg,
                 histVars>>

\* A Reset that returns nil and leaves the key in the map.
MemDeleteKept(p) ==
  /\ pc[p] = "b_delete"
  /\ Return(p, Ok(FALSE))
  /\ UNCHANGED <<envVars, memVars, redisVars, fclosed, localVars, histVars>>

\* A Reset that empties the whole map.
MemDeleteAll(p) ==
  /\ pc[p] = "b_delete"
  /\ store' = [k \in Keys |-> NoBucket]
  /\ heap' = Collect(heap, store', bkt)
  /\ Return(p, Ok(FALSE))
  /\ UNCHANGED <<envVars, closeVars, sweepVars, redisVars, fclosed, localVars, histVars>>

\* Reset: store.Delete(key).
MemDelete(p) ==
  /\ pc[p] = "b_delete"
  /\ store' = [store EXCEPT ![op[p].key] = NoBucket]
  /\ heap' = Collect(heap, store', bkt)
  /\ Return(p, Ok(FALSE))
  /\ UNCHANGED <<envVars, closeVars, sweepVars, redisVars, fclosed, localVars, histVars>>

\* Close: b.mu.Lock(); the closed check; b.closed = true.
MemCloseLock(p) ==
  /\ kind = "mem"
  /\ pc[p] = "b_start"
  /\ call[p] = "Close"
  /\ bmu = 0
  /\ IF mclosed
       THEN /\ Return(p, Ok(FALSE))
            /\ UNCHANGED <<mclosed, bmu>>
       ELSE /\ mclosed' = TRUE
            /\ bmu' = p
            /\ Goto(p, "b_close")
  /\ UNCHANGED <<envVars, store, heap, stopCleanup, tickerStopped, sweepVars, redisVars,
                 fclosed, localVars, histVars>>

\* A Close that stops the ticker and leaves b.stopCleanup open.
MemCloseStopTickerOnly(p) ==
  /\ pc[p] = "b_close"
  /\ tickerStopped' = TRUE
  /\ tickPending' \in BOOLEAN
  /\ bmu' = 0
  /\ Return(p, Ok(FALSE))
  /\ UNCHANGED <<envVars, store, heap, mclosed, stopCleanup, sweep, redisVars, fclosed,
                 localVars, histVars>>

\* Close: close(b.stopCleanup); b.cleanupTicker.Stop(); b.mu.Unlock().
\* Stop does not drain the channel: a tick sent before it may be left there.
MemCloseStop(p) ==
  /\ pc[p] = "b_close"
  /\ stopCleanup' = stopCleanup + 1
  /\ tickerStopped' = TRUE
  /\ tickPending' \in BOOLEAN
  /\ bmu' = 0
  /\ Return(p, Ok(FALSE))
  /\ UNCHANGED <<envVars, store, heap, mclosed, sweep, redisVars, fclosed, localVars,
                 histVars>>

\* ------------------------------------------------- the cleanup goroutine
\* cleanupRoutine's select takes a tick (the ticker runs, or a tick was left in
\* its channel when it stopped); cleanupExpiredBuckets computes its cutoff.
SweepBegin ==
  /\ kind = "mem"
  /\ sweep.pc = "wait"
  /\ ~tickerStopped \/ tickPending
  /\ tickPending' = FALSE
  /\ sweep' = [sweep EXCEPT !.pc = "range",
                            !.cutoff = now - opts.CleanupInterval * 2,
                            !.todo = Keys]
  /\ UNCHANGED <<envVars, store, heap, closeVars, redisVars, fclosed, ctlVars, localVars,
                 histVars>>

\* Range visits a key: lastUsed is read under the bucket's read lock.
SweepExamine(k) ==
  /\ sweep.pc = "range"
  /\ k \in sweep.todo
  /\ store[k] # NoBucket
  /\ IF heap[store[k]].LastRefill < sweep.cutoff
       THEN sweep' = [sweep EXCEPT !.pc = "delete", !.victim = k, !.todo = @ \ {k}]
       ELSE sweep' = [sweep EXCEPT !.todo = @ \ {k}]
  /\ UNCHANGED <<envVars, store, heap, closeVars, tickPending, redisVars, fclosed, ctlVars,
                 localVars, histVars>>

\* b.store.Delete(key) for a bucket found expired.
SweepDelete ==
  /\ sweep.pc = "delete"
  /\ store' = [store EXCEPT ![sweep.victim] = NoBucket]
  /\ heap' = Collect(heap, store', bkt)
  /\ sweep' = [sweep EXCEPT !.pc = "range", !.victim = "a"]
  /\ UNCHANGED <<envVars, closeVars, tickPending, redisVars, fclosed, ctlVars, localVars,
                 histVars>>

\* Range has visited every key in the map: back to the select.
SweepEnd ==
  /\ sweep.pc = "range"
  /\ \A k \in sweep.todo : store[k] = NoBucket
  /\ sweep' = [sweep EXCEPT !.pc = "wait", !.cutoff = 0, !.todo = {}]
  /\ UNCHANGED <<envVars, store, heap, closeVars, tickPending, redisVars, fclosed, ctlVars,
                 localVars, histVars>>

\* cleanupRoutine's select takes <-b.stopCleanup and returns.
SweepStop ==
  /\ sweep.pc = "wait"
  /\ stopCleanup > 0
  /\ sweep' = [sweep EXCEPT !.pc = "stopped"]
  /\ UNCHANGED <<envVars, store, heap, closeVars, tickPending, redisVars, fclosed, ctlVars,
                 localVars, histVars>>

\* ------------------------------------------------------------- time
\* d milliseconds pass.  The Redis store reads the clock in whole seconds, the
\* other stores against refill intervals of a few milliseconds.
TimeSteps == IF kind = "redis" THEN {MsPerSecond} ELSE {1}

Tick(d) ==
  /\ d \in TimeSteps
  /\ IF d = 1 THEN now + 1 <= MaxMs ELSE Unix(now) + 1 <= MaxSec
  /\ now' = now + d
  /\ UNCHANGED <<opts, kind, fcfg, cfgs, memVars, redisVars, fclosed, ctlVars, localVars, histVars>>

\* ------------------------------------------------- Redis store
\* The checks a method makes before it sends a command, in the method's order.
RedisEntry(c, o) ==
  IF rclosed THEN "unavailable"
  ELSE IF c \in {"Take", "Reset", "GetInfo", "SetLimit"} /\ ~validateKey(o.key) THEN "validation"
  ELSE IF c = "Take" /\ ~validateTokens(o.tokens) THEN "validation"
  ELSE IF c = "SetLimit" /\ (o.limit <= 0 \/ o.refill <= 0) THEN "validation"
  ELSE IF o.ctx = "cancelled" THEN "cancelled"
  ELSE "nil"

\* The checks, then the clock is read (Take: currentTime; SetLimit: now).
RedisStart(p) ==
  /\ kind = "redis"
  /\ pc[p] = "b_start"
  /\ call[p] \in {"Take", "Reset", "GetInfo", "SetLimit", "HealthCheck"}
  /\ LET e == RedisEntry(call[p], op[p]) IN
       IF e # "nil"
         THEN Return(p, Err(e)) /\ UNCHANGED tnow
         ELSE Goto(p, "r_cmd") /\ tnow' = [tnow EXCEPT ![p] = now]
  /\ UNCHANGED <<envVars, memVars, redisVars, fclosed, op, bkt, late, reg, histVars>>

\* The command reaches the server and runs there as one step: Take's script
\* (EVAL), Reset's DEL, GetInfo's HMGET, SetLimit's HMSET, HealthCheck's PING.
\* A closed client sends nothing and returns its error.
RedisCmd(p) ==
  /\ pc[p] = "r_cmd"
  /\ LET k == op[p].key
         c == call[p]
         s == TakeScript(rdb[k], op[p].tokens, opts.DefaultLimit, opts.DefaultRefill,
                         Unix(tnow[p]))
     IN IF rclientCloses > 0
          THEN Return(p, Err("backend")) /\ UNCHANGED <<rdb, granted, minted, seen>>
        ELSE IF c = "Take"
          THEN /\ rdb' = [rdb EXCEPT ![k] = s.hash]
               /\ seen' = [seen EXCEPT ![p] = Sight(
                              BucketOfScript(ScriptLoad(rdb[k], opts.DefaultLimit,
                                                        opts.DefaultRefill, Unix(tnow[p]))),
                              Unix(tnow[p]), Unix(tnow[p]))]
               /\ granted' = [granted EXCEPT ![k] = @ + IF s.result = 1 THEN op[p].tokens ELSE 0]
               /\ minted' = [minted EXCEPT ![k] = @ + IF s.result = 1
                               THEN ScriptMinted(rdb[k], opts.DefaultLimit,
                                                 opts.DefaultRefill, Unix(tnow[p]))
                               ELSE 0]
               /\ Return(p, Ok(s.result = 1))
        ELSE IF c = "Reset"
          THEN /\ rdb' = [rdb EXCEPT ![k] = NoHash]
               /\ granted' = [granted EXCEPT ![k] = 0]
               /\ minted' = [minted EXCEPT ![k] = 0]
               /\ Return(p, Ok(FALSE))
               /\ UNCHANGED seen
        ELSE IF c = "GetInfo"
          THEN /\ Return(p, Info(InfoOfHash(rdb[k], opts, now)))
               /\ UNCHANGED <<rdb, granted, minted, seen>>
        ELSE IF c = "SetLimit"
          THEN /\ rdb' = [rdb EXCEPT ![k] = SetLimitHash(@, op[p].limit, op[p].refill, tnow[p])]
               /\ Goto(p, "r_expire")
               /\ UNCHANGED <<granted, minted, seen>>
        ELSE Return(p, Ok(FALSE)) /\ UNCHANGED <<rdb, granted, minted, seen>>
  /\ UNCHANGED <<envVars, memVars, rclosed, rclientCloses, fclosed, localVars, closeCalls,
                 flips, born, prior>>

\* SetLimit's second command: EXPIRE.
RedisExpire(p) ==
  /\ pc[p] = "r_expire"
  /\ IF rclientCloses > 0
       THEN Return(p, Err("backend")) /\ UNCHANGED rdb
       ELSE /\ rdb' = [rdb EXCEPT ![op[p].key].expires = TRUE]
            /\ Return(p, Ok(FALSE))
  /\ UNCHANGED <<envVars, memVars, rclosed, rclientCloses, fclosed, localVars, histVars>>

\* Close: the read of r.closed, under no lock.
RedisCloseCheck(p) ==
  /\ kind = "redis"
  /\ pc[p] = "b_start"
  /\ call[p] = "Close"
  /\ IF rclosed THEN Return(p, Ok(FALSE)) ELSE Goto(p, "r_close")
  /\ UNCHANGED <<envVars, memVars, redisVars, fclosed, localVars, histVars>>

\* Close: r.closed = true; return r.client.Close().  A client that is closed
\* already returns an error.
RedisCloseDo(p) ==
  /\ pc[p] = "r_close"
  /\ rclosed' = TRUE
  /\ rclientCloses' = rclientCloses + 1
  /\ Return(p, IF rclientCloses = 0 THEN Ok(FALSE) ELSE Err("backend"))
  /\ UNCHANGED <<envVars, memVars, rdb, fclosed, localVars, histVars>>

\* ------------------------------------------------- legacy limiter package
\* The bucket Take offers to LoadOrStore.
legacyBucket(o, t) ==
  [Tokens |-> o.DefaultLimit, MaxTokens |-> o.DefaultLimit,
   RefillRate |-> o.DefaultRefill, LastRefill |-> t]

legacyRefillEarly(b, t) ==
  LET newTokens == GoDiv(t - b.LastRefill + 1, b.RefillRate)
  IN IF newTokens > 0
       THEN [b EXCEPT !.Tokens = Min(b.MaxTokens, b.Tokens + newTokens), !.LastRefill = t]
       ELSE b

\* Take's refill, with the time read at its entry.
legacyRefill(b, t) ==
  LET newTokens == GoDiv(t - b.LastRefill, b.RefillRate)
  IN IF newTokens > 0
       THEN [b EXCEPT !.Tokens = Min(b.MaxTokens, b.Tokens + newTokens), !.LastRefill = t]
       ELSE b

legacyConsume(b, n) == IF b.Tokens >= n THEN [b EXCEPT !.Tokens = b.Tokens - n] ELSE b

\* Take: now := time.Now(); store.LoadOrStore(key, &bucket{...}).  Reset: store.Delete(key).
LegacyStart(p) ==
  /\ pc[p] = "l_start"
  /\ LET k == op[p].key
         i == FreeId(store, bkt)
     IN IF call[p] = "Reset"
          THEN /\ store' = [store EXCEPT ![k] = NoBucket]
               /\ heap' = Collect(heap, store', bkt)
               /\ Return(p, Ok(FALSE))
               /\ UNCHANGED <<bkt, tnow, born, granted, minted>>
        ELSE IF store[k] # NoBucket
          THEN /\ bkt' = [bkt EXCEPT ![p] = store[k]]
               /\ tnow' = [tnow EXCEPT ![p] = now]
               /\ Goto(p, "l_refill")
               /\ UNCHANGED <<store, heap, born, granted, minted>>
        ELSE /\ store' = [store EXCEPT ![k] = i]
             /\ heap' = [heap EXCEPT ![i] = legacyBucket(opts, now)]
             /\ bkt' = [bkt EXCEPT ![p] = i]
             /\ tnow' = [tnow EXCEPT ![p] = now]
             /\ born' = [born EXCEPT ![k] = now]
             /\ granted' = [granted EXCEPT ![k] = 0]
             /\ minted' = [minted EXCEPT ![k] = 0]
             /\ Goto(p, "l_refill")
  /\ UNCHANGED <<envVars, closeVars, sweepVars, redisVars, fclosed, op, late, reg,
                 closeCalls, flips, seen, prior>>

\* Take: the refill.
LegacyRefill(p) ==
  /\ pc[p] = "l_refill"
  /\ heap' = [heap EXCEPT ![bkt[p]] = legacyRefill(@, tnow[p])]
  /\ minted' = [minted EXCEPT ![op[p].key] =
                   @ + (legacyRefill(heap[bkt[p]], tnow[p]).Tokens - heap[bkt[p]].Tokens)]
  /\ seen' = [seen EXCEPT ![p] = Sight(heap[bkt[p]], tnow[p], born[op[p].key])]
  /\ Goto(p, "l_consume")
  /\ UNCHANGED <<envVars, store, closeVars, sweepVars, redisVars, fclosed, localVars,
                 closeCalls, flips, granted, born, prior>>

\* Take: the comparison bkt.tokens >= tokens.  No lock is held: the value read
\* stays in the goroutine's register.
LegacyConsume(p) ==
  /\ pc[p] = "l_consume"
  /\ LET b == heap[bkt[p]] IN
       IF b.Tokens >= op[p].tokens
         THEN /\ reg' = [reg EXCEPT ![p] = b.Tokens]
              /\ Goto(p, "l_decrement")
              /\ UNCHANGED <<heap, bkt>>
         ELSE /\ bkt' = [bkt EXCEPT ![p] = NoBucket]
              /\ heap' = Collect(heap, store, bkt')
              /\ Return(p, Ok(FALSE))
              /\ UNCHANGED reg
  /\ UNCHANGED <<envVars, store, closeVars, sweepVars, redisVars, fclosed, op, tnow, late,
                 histVars>>

\* Take: bkt.tokens -= tokens; return true.  The store writes the difference
\* with the field as it is now or as the comparison read it: the access is not
\* synchronised and the compiler may keep the value it loaded.
LegacyDecrement(p) ==
  /\ pc[p] = "l_decrement"
  /\ \E v \in {heap[bkt[p]].Tokens, reg[p]} :
       /\ bkt' = [bkt EXCEPT ![p] = NoBucket]
       /\ heap' = Collect([heap EXCEPT ![bkt[p]].Tokens = v - op[p].tokens], store, bkt')
  /\ granted' = [granted EXCEPT ![op[p].key] = @ + op[p].tokens]
  /\ Return(p, Ok(TRUE))
  /\ UNCHANGED <<envVars, store, closeVars, sweepVars, redisVars, fclosed, op, tnow, late,
                 reg, closeCalls, flips, minted, seen, born, prior>>

\* ------------------------------------------------- RateLimiter facade
facadeValidateKey(k) == KeyLen(k) # 0 /\ KeyLen(k) <= MaxKeyLen

facadeValidateTokensStrict(n, cfg) == n > 0 /\ ~(n >= cfg.DefaultLimit * TokenCeilingFactor)

facadeValidateTokens(n, cfg) == n > 0 /\ ~(n > cfg.DefaultLimit * TokenCeilingFactor)

\* The checks a facade method makes before it calls the Backend, in its order.
FacadeEntry(o) ==
  IF fclosed THEN "unavailable"
  ELSE IF o.name # "HealthCheck" /\ ~facadeValidateKey(o.key) THEN "validation"
  ELSE IF o.name \in {"Take", "TakeWithLimit"} /\ ~facadeValidateTokens(o.tokens, fcfg)
    THEN "validation"
  ELSE IF o.name = "TakeWithLimit" /\ (o.limit <= 0 \/ o.refill <= 0) THEN "validation"
  ELSE IF o.name = "Take" /\ o.ctx = "cancelled" THEN "cancelled"
  ELSE "nil"

\* A TakeWithLimit that goes to Backend.Take without Backend.SetLimit.
FacadeMethodTakeOnly(name) ==
  IF name = "TakeWithLimit" THEN "Take"
  ELSE IF name \in {"IsAllowed", "Wait"} THEN "GetInfo"
  ELSE name

\* The Backend method a facade method calls first.
FacadeMethod(name) ==
  IF name = "TakeWithLimit" THEN "SetLimit"
  ELSE IF name \in {"IsAllowed", "Wait"} THEN "GetInfo"
  ELSE name

\* A method that calls the Backend without holding r.mu.
FacadeStartUnlocked(p) ==
  /\ pc[p] = "f_start"
  /\ op[p].name \notin {"Close", "GetConfig"}
  /\ writer = 0
  /\ LET e == FacadeEntry(op[p]) IN
       IF e # "nil"
         THEN Finish(p, Err(e))
         ELSE /\ CallBackend(p, FacadeMethod(op[p].name))
              /\ UNCHANGED <<readers, writer>>
  /\ UNCHANGED <<envVars, memVars, redisVars, fclosed, localVars, histVars>>

\* Take, TakeWithLimit, Reset, GetInfo (also under IsAllowed and Wait) and
\* HealthCheck: r.mu.RLock(), the checks, the call of the Backend.
FacadeStart(p) ==
  /\ pc[p] = "f_start"
  /\ op[p].name \notin {"Close", "GetConfig"}
  /\ writer = 0
  /\ LET e == FacadeEntry(op[p]) IN
       IF e # "nil"
         THEN Finish(p, Err(e))
         ELSE /\ CallBackend(p, FacadeMethod(op[p].name))
              /\ readers' = readers \cup {p}
              /\ UNCHANGED writer
  /\ UNCHANGED <<envVars, memVars, redisVars, fclosed, localVars, histVars>>

FacadeCloseUnchecked(p) ==
  /\ pc[p] = "f_start"
  /\ op[p].name = "Close"
  /\ writer = 0
  /\ readers = {}
  /\ fclosed' = TRUE
  /\ flips' = flips + (IF fclosed THEN 0 ELSE 1)
  /\ closeCalls' = closeCalls + 1
  /\ writer' = p
  /\ CallBackend(p, "Close")
  /\ UNCHANGED readers
  /\ UNCHANGED <<envVars, memVars, redisVars, localVars, granted, minted, seen, born, prior>>

\* Close: r.mu.Lock(); the closed check; r.closed = true; r.backend.Close(ctx).
FacadeClose(p) ==
  /\ pc[p] = "f_start"
  /\ op[p].name = "Close"
  /\ writer = 0
  /\ readers = {}
  /\ IF fclosed
       THEN Finish(p, Ok(FALSE)) /\ UNCHANGED <<fclosed, flips, closeCalls>>
       ELSE /\ fclosed' = TRUE
            /\ flips' = flips + 1
            /\ closeCalls' = closeCalls + 1
            /\ writer' = p
            /\ CallBackend(p, "Close")
            /\ UNCHANGED readers
  /\ UNCHANGED <<envVars, memVars, redisVars, localVars, granted, minted, seen, born, prior>>

\* A select that answers a done context with nil.
WaitCancelledNil(p) ==
  /\ pc[p] = "w_select"
  /\ op[p].ctx = "cancelled"
  /\ Finish(p, Ok(TRUE))
  /\ UNCHANGED <<envVars, memVars, redisVars, fclosed, localVars, histVars>>

\* Wait's select: <-ctx.Done().
WaitCancelled(p) ==
  /\ pc[p] = "w_select"
  /\ op[p].ctx = "cancelled"
  /\ Finish(p, Err("cancelled"))
  /\ UNCHANGED <<envVars, memVars, redisVars, fclosed, localVars, histVars>>

\* Wait's select: <-ticker.C, then r.IsAllowed(ctx, key, tokens); when the
\* context is done as well, select takes either case.  A run follows a Wait for
\* MaxPolls polls.
WaitTick(p) ==
  /\ pc[p] = "w_select"
  /\ ncalls[p] < MaxPolls
  /\ Goto(p, "f_start")
  /\ UNCHANGED <<envVars, memVars, redisVars, fclosed, localVars, histVars>>

\* The caller cancels the context of a Wait that is blocked in its select.
Cancel(p) ==
  /\ pc[p] = "w_select"
  /\ op[p].ctx = "live"
  /\ op' = [op EXCEPT ![p].ctx = "cancelled"]
  /\ UNCHANGED <<envVars, memVars, redisVars, fclosed, ctlVars, bkt, tnow, late, reg, histVars>>

\* ------------------------------------------------- the constructors
\* An *Options or *config.Config argument: the nil pointer, or the five fields
\* that Validate reads (durations in milliseconds).
OptionsArg(nil, l, r, b, m, c) ==
  [nil |-> nil, DefaultLimit |-> l, DefaultRefill |-> r, DefaultBurst |-> b,
   MaxKeys |-> m, CleanupInterval |-> c]

NilOptions == OptionsArg(TRUE, 0, 0, 0, 0, 0)

\* DefaultOptions() and config.DefaultConfig(): 100 tokens, one second, burst
\* 10, 10000 keys, five minutes.
DefaultOptions == OptionsArg(FALSE, 100, MsPerSecond, 10, 10000, 300 * MsPerSecond)

\* An Options.Validate that does not look at max_keys.
ValidateNoMaxKeys(o) ==
  /\ ~(o.DefaultLimit <= 0)
  /\ ~(o.DefaultRefill <= 0)
  /\ ~(o.DefaultBurst <= 0)
  /\ ~(o.CleanupInterval <= 0)

\* Options.Validate and Config.Validate: nil is returned (TRUE) when none of
\* the five fields is <= 0.
Validate(o) ==
  /\ ~(o.DefaultLimit <= 0)
  /\ ~(o.DefaultRefill <= 0)
  /\ ~(o.DefaultBurst <= 0)
  /\ ~(o.MaxKeys <= 0)
  /\ ~(o.CleanupInterval <= 0)

\* The call of a constructor, as the calling goroutine's op.
NewOp(name, o, url, ping, nilBackend) ==
  [name |-> name, layer |-> "new", options |-> o, url |-> url, ping |-> ping,
   nilBackend |-> nilBackend]

\* The constructor returns (nil, err).
NewFails(p, o, e) ==
  /\ pc[p] = "idle"
  /\ kind = "none"
  /\ op' = [op EXCEPT ![p] = o]
  /\ pc' = [pc EXCEPT ![p] = "done"]
  /\ ret' = [ret EXCEPT ![p] = Err(e)]
  /\ UNCHANGED <<envVars, memVars, redisVars, fclosed, call, readers, writer, ncalls,
                 bkt, tnow, late, reg, histVars>>

\* NewInMemoryBackend: nil options become DefaultOptions(); Validate; the
\* ticker and the cleanup goroutine are started.
NewInMemoryBackend(p, options) ==
  LET o == NewOp("NewInMemoryBackend", options, "", TRUE, FALSE)
      eff == IF options.nil THEN DefaultOptions ELSE options IN
  IF ~Validate(eff)
    THEN NewFails(p, o, "validation")
    ELSE /\ pc[p] = "idle"
         /\ kind = "none"
         /\ op' = [op EXCEPT ![p] = o]
         /\ pc' = [pc EXCEPT ![p] = "done"]
         /\ ret' = [ret EXCEPT ![p] = Ok(FALSE)]
         /\ kind' = "mem"
         /\ opts' = eff
         /\ tickerStopped' = FALSE
         /\ sweep' = [sweep EXCEPT !.pc = "wait"]
         /\ UNCHANGED <<now, fcfg, cfgs, store, heap, mclosed, stopCleanup, bmu, tickPending,
                        redisVars, fclosed, call, readers, writer, ncalls, bkt, tnow,
                        late, reg, histVars>>

\* NewRedisBackend: the empty URL; nil options become DefaultOptions();
\* Validate; redis.ParseURL; client.Ping.
NewRedisBackend(p, url, options, ping) ==
  LET o == NewOp("NewRedisBackend", options, url, ping, FALSE)
      eff == IF options.nil THEN DefaultOptions ELSE options IN
  IF url = "" THEN NewFails(p, o, "unavailable")
  ELSE IF ~Validate(eff) THEN NewFails(p, o, "validation")
  ELSE IF url = "bad" THEN NewFails(p, o, "other")
  ELSE IF ~ping THEN NewFails(p, o, "other")
  ELSE /\ pc[p] = "idle"
       /\ kind = "none"
       /\ op' = [op EXCEPT ![p] = o]
       /\ pc' = [pc EXCEPT ![p] = "done"]
       /\ ret' = [ret EXCEPT ![p] = Ok(FALSE)]
       /\ kind' = "redis"
       /\ opts' = eff
       /\ UNCHANGED <<now, fcfg, cfgs, memVars, redisVars, fclosed, call, readers, writer,
                      ncalls, bkt, tnow, late, reg, histVars>>

\* limiter.New: the nil backend; a nil cfg becomes config.DefaultConfig();
\* cfg.Validate.
New(p, nilBackend, cfg) ==
  LET o == NewOp("New", cfg, "", TRUE, nilBackend)
      eff == IF cfg.nil THEN DefaultOptions ELSE cfg IN
  IF nilBackend THEN NewFails(p, o, "unavailable")
  ELSE IF ~Validate(eff) THEN NewFails(p, o, "other")
  ELSE /\ pc[p] = "idle"
       /\ kind = "none"
       /\ op' = [op EXCEPT ![p] = o]
       /\ pc' = [pc EXCEPT ![p] = "done"]
       /\ ret' = [ret EXCEPT ![p] = Ok(FALSE)]
       /\ kind' = "facade"
       /\ fcfg' = eff
       /\ UNCHANGED <<now, opts, cfgs, memVars, redisVars, fclosed, call, readers, writer,
                      ncalls, bkt, tnow, late, reg, histVars>>

\* ------------------------------------------------- GetConfig
\* The Config object behind a pointer: 0 is r.config, i > 0 the i-th object
\* that GetConfig allocated.
Deref(ptr) == IF ptr = 0 THEN fcfg ELSE cfgs[ptr]

ConfigFields == {"DefaultLimit", "DefaultRefill", "DefaultBurst", "MaxKeys", "CleanupInterval"}

\* A GetConfig that returns r.config itself.
GetConfigShared(p) ==
  /\ pc[p] = "f_start"
  /\ op[p].name = "GetConfig"
  /\ writer = 0
  /\ Len(cfgs) < MaxCopies
  /\ Finish(p, [err |-> "nil", allowed |-> FALSE, info |-> ZeroBucket, ptr |-> 0])
  /\ UNCHANGED <<envVars, memVars, redisVars, fclosed, localVars, histVars>>

\* GetConfig: r.mu.RLock(); configCopy := *r.config; return &configCopy.  A
\* run follows MaxCopies calls.
GetConfig(p) ==
  /\ pc[p] = "f_start"
  /\ op[p].name = "GetConfig"
  /\ writer = 0
  /\ Len(cfgs) < MaxCopies
  /\ cfgs' = Append(cfgs, fcfg)
  /\ Finish(p, [err |-> "nil", allowed |-> FALSE, info |-> ZeroBucket, ptr |-> Len(cfgs) + 1])
  /\ UNCHANGED <<now, opts, kind, fcfg, memVars, redisVars, fclosed, localVars, histVars>>

\* The caller assigns v to field f of the Config that its last GetConfig
\* returned.
SetField(p, f, v) ==
  /\ pc[p] = "done"
  /\ op[p].name = "GetConfig"
  /\ IF ret[p].ptr = 0
       THEN fcfg' = [fcfg EXCEPT ![f] = v] /\ UNCHANGED cfgs
       ELSE cfgs' = [cfgs EXCEPT ![ret[p].ptr][f] = v] /\ UNCHANGED fcfg
  /\ UNCHANGED <<now, opts, kind, memVars, redisVars, fclosed, ctlVars, localVars, histVars>>

\* ------------------------------------------------- the specifications
BOp(name, k, n, l, r, c) ==
  [name |-> name, layer |-> "backend", key |-> k, tokens |-> n, limit |-> l,
   refill |-> r, ctx |-> c]

FOp(name, k, n, l, r, c) ==
  [name |-> name, layer |-> "facade", key |-> k, tokens |-> n, limit |-> l,
   refill |-> r, ctx |-> c]

MemSteps(p) ==
  \/ MemStart(p)
  \/ MemLoad(p)
  \/ MemStore(p)
  \/ MemRefill(p)
  \/ MemConsume(p)
  \/ MemRead(p)
  \/ MemSet(p)
  \/ MemDelete(p)

MemCloseSteps(p) ==
  \/ MemCloseLock(p)
  \/ MemCloseStop(p)

RedisSteps(p) ==
  \/ RedisStart(p)
  \/ RedisCmd(p)
  \/ RedisExpire(p)

RedisCloseSteps(p) ==
  \/ RedisCloseCheck(p)
  \/ RedisCloseDo(p)

LegacySteps(p) ==
  \/ LegacyStart(p)
  \/ LegacyRefill(p)
  \/ LegacyConsume(p)
  \/ LegacyDecrement(p)

FacadeSteps(p) ==
  \/ FacadeStart(p)
  \/ FacadeClose(p)
  \/ WaitCancelled(p)
  \/ WaitTick(p)

Sweeper ==
  \/ SweepBegin
  \/ \E k \in Keys : SweepExamine(k)
  \/ SweepDelete
  \/ SweepEnd

\* The Take path of the store in memory.
TakeSteps(p) ==
  \/ MemStart(p)
  \/ MemLoad(p)
  \/ MemStore(p)
  \/ MemRefill(p)
  \/ MemConsume(p)

\* The calls of the store's methods with valid arguments, on key "a".
StoreCalls ==
  {BOp("Take", "a", n, 0, 0, "live") : n \in 1..(MaxLimit + 1)}
    \cup {BOp("GetInfo", "a", 0, 0, 0, "live"), BOp("Reset", "a", 0, 0, 0, "live")}
    \cup {BOp("SetLimit", "a", 0, l, r, "live") : l \in 1..MaxLimit, r \in 1..MaxRefill}

\* SpecSeq: one goroutine calls the methods of a store (in memory or Redis) one
\* after the other, while time passes.
InitSeq == InitCommon /\ kind \in {"mem", "redis"}

NextSeq ==
  \/ \E o \in StoreCalls : Begin(1, o)
  \/ MemSteps(1)
  \/ RedisSteps(1)
  \/ \E d \in TimeSteps : Tick(d)

SpecSeq == InitSeq /\ [][NextSeq]_vars

\* SpecRace: on a store in memory that holds no bucket, every goroutine issues
\* one Take("a", n), the same n for all; no time passes.
InitRace == InitCommon /\ kind = "mem"

RaceTake(p) ==
  \E n \in 1..MaxLimit :
    /\ pc[p] = "idle"
    /\ \A q \in Procs : pc[q] # "idle" => op[q].tokens = n
    /\ Begin(p, BOp("Take", "a", n, 0, 0, "live"))

NextRace == \E p \in Procs : RaceTake(p) \/ TakeSteps(p)

SpecRace == InitRace /\ [][NextRace]_vars

\* SpecRefill: one goroutine issues Take("a", 1) again and again, on the legacy
\* store or on the store in memory, while time passes.
InitRefill == InitCommon /\ kind \in {"legacy", "mem"}

NextRefill ==
  \/ Begin(1, BOp("Take", "a", 1, 0, 0, "live"))
  \/ LegacySteps(1)
  \/ TakeSteps(1)
  \/ \E d \in TimeSteps : Tick(d)

SpecRefill == InitRefill /\ [][NextRefill]_vars

\* SpecRedisTakes: the goroutines are clients of one Redis server and issue
\* Takes on key "a", while time passes.
InitRedisTakes == InitCommon /\ kind = "redis"

NextRedisTakes ==
  \/ \E p \in Procs, n \in 1..MaxLimit : Begin(p, BOp("Take", "a", n, 0, 0, "live"))
  \/ \E p \in Procs : RedisStart(p) \/ RedisCmd(p)
  \/ \E d \in TimeSteps : Tick(d)

SpecRedisTakes == InitRedisTakes /\ [][NextRedisTakes]_vars

\* SpecValidate: one goroutine calls the facade's Take with keys and token
\* counts on both sides of every validation bound; the facade stays open.
TakeInputs(cfg) ==
  {FOp("Take", k, n, 0, 0, "live") :
     k \in {EmptyKey, LongKey, "a"},
     n \in {-1, 0, 1, cfg.DefaultLimit * TokenCeilingFactor,
            cfg.DefaultLimit * TokenCeilingFactor + 1}}

InitValidate == InitCommon /\ kind \in {"mem", "redis"}

NextValidate ==
  \/ \E o \in TakeInputs(fcfg) : Begin(1, o)
  \/ FacadeStart(1)
  \/ TakeSteps(1)
  \/ RedisStart(1)
  \/ RedisCmd(1)

SpecValidate == InitValidate /\ [][NextValidate]_vars

\* SpecClose: the goroutines call the facade's methods, Close among them.
FacadeCalls ==
  {FOp(m, "a", 1, 0, 0, "live") : m \in {"Close", "Take", "GetInfo", "HealthCheck"}}
    \cup {FOp("Wait", "a", 1, 0, 0, c) : c \in {"live", "cancelled"}}

InitClose == InitCommon /\ kind \in {"mem", "redis"}

NextClose ==
  \E p \in Procs :
    \/ \E o \in FacadeCalls : Begin(p, o)
    \/ FacadeSteps(p)
    \/ TakeSteps(p)
    \/ MemRead(p)
    \/ MemCloseSteps(p)
    \/ RedisStart(p)
    \/ RedisCmd(p)
    \/ RedisCloseSteps(p)

SpecClose == InitClose /\ [][NextClose]_vars

\* SpecBackendClose: the goroutines call Close and HealthCheck on a store
\* directly, while the cleanup goroutine of the store in memory runs.
InitBackendClose == InitCommon /\ kind \in {"mem", "redis"}

NextBackendClose ==
  \/ \E p \in Procs, m \in {"Close", "HealthCheck"} : Begin(p, BOp(m, "a", 0, 0, 0, "live"))
  \/ \E p \in Procs : MemStart(p) \/ MemCloseSteps(p)
  \/ \E p \in Procs : RedisStart(p) \/ RedisCmd(p) \/ RedisCloseSteps(p)
  \/ SweepBegin
  \/ SweepEnd
  \/ SweepStop

SpecBackendClose == InitBackendClose /\ [][NextBackendClose]_vars


\* SpecChain: one goroutine calls the methods of the store in memory one after
\* the other while time passes; the history keeps, for each call, the call
\* made before it.
InitChain == InitCommon /\ kind = "mem"

NextChain ==
  \/ \E o \in StoreCalls : Then(1, o)
  \/ MemSteps(1)
  \/ \E d \in TimeSteps : Tick(d)

SpecChain == InitChain /\ [][NextChain]_vars

\* SpecFacade: one goroutine calls the methods of an open facade one after the
\* other, with a live or an already cancelled context, while time passes; the
\* context of a blocked Wait may be cancelled.
OpenFacadeCalls ==
  {FOp("Take", "a", n, 0, 0, "live") : n \in 1..MaxLimit}
    \cup {FOp("TakeWithLimit", "a", n, l, 1, "live") : n \in {1, MaxLimit + 1}, l \in 1..MaxLimit}
    \cup {FOp(m, "a", 0, 0, 0, "live") : m \in {"Reset", "GetInfo", "HealthCheck"}}
    \cup {FOp("IsAllowed", "a", n, 0, 0, "live") : n \in {0, MaxLimit}}
    \cup {FOp("Wait", "a", n, 0, 0, "live") : n \in {0, MaxLimit + 1}}
    \cup {FOp(m, "a", 1, 0, 0, "cancelled") :
             m \in {"Take", "Reset", "GetInfo", "HealthCheck", "IsAllowed", "Wait"}}
    \cup {FOp("TakeWithLimit", "a", 1, 1, 1, "cancelled")}

InitFacade == InitCommon /\ kind \in {"mem", "redis"}

NextFacade ==
  \/ \E o \in OpenFacadeCalls : Begin(1, o)
  \/ FacadeStart(1)
  \/ WaitCancelled(1)
  \/ WaitTick(1)
  \/ Cancel(1)
  \/ MemSteps(1)
  \/ RedisSteps(1)
  \/ \E d \in TimeSteps : Tick(d)

SpecFacade == InitFacade /\ [][NextFacade]_vars

\* SpecTwin: the same bucket is stored in the store in memory and in the Redis
\* store, time passes, and the same Take(key, n) is applied to both: refillTokens
\* and the compare-and-decrement in memory (ret[1]), the Lua script on Redis
\* (ret[2]).
TwinBuckets ==
  {b \in [Tokens : 0..MaxLimit, MaxTokens : 1..MaxLimit, RefillRate : 1..MaxRefill,
          LastRefill : {0}] : b.Tokens <= b.MaxTokens}

\* The hash that holds bucket b: last_refill as the Take script writes it (a
\* number of seconds, "num") or as SetLimit writes it (an RFC3339 string, "str").
HashOfBucket(b, lr) ==
  [tokens |-> b.Tokens, max_tokens |-> b.MaxTokens, refill_rate |-> b.RefillRate,
   last_refill |-> Unix(b.LastRefill), lrKind |-> lr, expires |-> TRUE]

TwinStore(b, lr) ==
  /\ store["a"] = NoBucket
  /\ now = 0
  /\ store' = [store EXCEPT !["a"] = 1]
  /\ heap' = [heap EXCEPT ![1] = b]
  /\ rdb' = [rdb EXCEPT !["a"] = HashOfBucket(b, lr)]
  /\ UNCHANGED <<envVars, closeVars, sweepVars, rclosed, rclientCloses, fclosed, ctlVars,
                 localVars, histVars>>

TwinElapse(d) ==
  /\ store["a"] # NoBucket
  /\ pc[1] = "idle"
  /\ IF d = 1 THEN (now % MsPerSecond) + 1 <= MaxMs ELSE Unix(now) + 1 <= MaxSec
  /\ now' = now + d
  /\ UNCHANGED <<opts, kind, fcfg, cfgs, memVars, redisVars, fclosed, ctlVars, localVars, histVars>>

TwinTake(n) ==
  /\ store["a"] # NoBucket
  /\ pc[1] = "idle"
  /\ LET m == refillTokens(heap[1], now)
         s == TakeScript(rdb["a"], n, opts.DefaultLimit, opts.DefaultRefill, Unix(now))
     IN /\ heap' = [heap EXCEPT ![1] = consume(m, n)]
        /\ rdb' = [rdb EXCEPT !["a"] = s.hash]
        /\ ret' = [ret EXCEPT ![1] = Ok(hasTokens(m, n)), ![2] = Ok(s.result = 1)]
  /\ op' = [op EXCEPT ![1] = BOp("Take", "a", n, 0, 0, "live")]
  /\ pc' = [pc EXCEPT ![1] = "done"]
  /\ UNCHANGED <<envVars, store, closeVars, sweepVars, rclosed, rclientCloses, fclosed,
                 call, readers, writer, ncalls, bkt, tnow, late, reg, histVars>>

InitTwin == InitCommon /\ kind = "twin"

NextTwin ==
  \/ \E b \in TwinBuckets, lr \in {"num", "str"} : TwinStore(b, lr)
  \/ \E d \in {1, MsPerSecond} : TwinElapse(d)
  \/ \E n \in 1..MaxLimit : TwinTake(n)

SpecTwin == InitTwin /\ [][NextTwin]_vars

\* SpecSweep: on the store in memory, one goroutine issues Takes and GetInfos on
\* key "a" while the cleanup goroutine runs its sweeps and time passes.
SweepCalls == {BOp("Take", "a", 1, 0, 0, "live"), BOp("GetInfo", "a", 0, 0, 0, "live")}

InitSweep == InitCommon /\ kind = "mem"

NextSweep ==
  \/ \E o \in SweepCalls : Begin(1, o)
  \/ TakeSteps(1)
  \/ MemRead(1)
  \/ Sweeper
  \/ \E d \in TimeSteps : Tick(d)

SpecSweep == InitSweep /\ [][NextSweep]_vars

\* SpecStop: on the store in memory, one goroutine issues Takes and a Close
\* while the cleanup goroutine runs its sweeps and time passes.  The Go
\* scheduler runs every goroutine that can take a step: the cleanup goroutine
\* and the goroutine inside Close are not suspended forever.
StopCalls == {BOp("Take", "a", 1, 0, 0, "live"), BOp("Close", "a", 0, 0, 0, "live")}

InitStop == InitCommon /\ kind = "mem"

NextStop ==
  \/ \E o \in StopCalls : Begin(1, o)
  \/ TakeSteps(1)
  \/ MemCloseSteps(1)
  \/ Sweeper
  \/ SweepStop
  \/ \E d \in TimeSteps : Tick(d)

SpecStop ==
  /\ InitStop /\ [][NextStop]_vars
  /\ WF_vars(Sweeper \/ SweepStop)
  /\ WF_vars(MemCloseSteps(1))

\* SpecCustom: one goroutine calls TakeWithLimit on an open facade with valid
\* and invalid arguments, with a live or a cancelled context; the store under
\* the facade may be closed directly, so that its SetLimit fails.
CustomCalls ==
  {FOp("TakeWithLimit", k, n, l, r, c) :
     k \in {EmptyKey, "a"}, n \in {0, 1}, l \in {0, 1, MaxLimit}, r \in {0, 1},
     c \in {"live", "cancelled"}}
    \cup {BOp("Close", "a", 0, 0, 0, "live")}

InitCustom == InitCommon /\ kind \in {"mem", "redis"}

NextCustom ==
  \/ \E o \in CustomCalls : Begin(1, o)
  \/ FacadeStart(1)
  \/ TakeSteps(1)
  \/ MemSet(1)
  \/ MemCloseSteps(1)
  \/ RedisSteps(1)
  \/ RedisCloseSteps(1)

SpecCustom == InitCustom /\ [][NextCustom]_vars

\* SpecNew: nothing is built yet; one of the three constructors is called with
\* nil or with fields on both sides of zero.
OptionArgs ==
  {NilOptions} \cup
    {OptionsArg(FALSE, l, r, b, m, c) :
       l \in {-1, 0, 1}, r \in {0, 1}, b \in {0, 1}, m \in {0, 1}, c \in {-1, 0, 1}}

InitNew ==
  /\ now = 0
  /\ kind = "none"
  /\ opts = NilOptions
  /\ fcfg = NilOptions
  /\ cfgs = <<>>
  /\ store = [k \in Keys |-> NoBucket]
  /\ heap = [i \in Ids |-> ZeroBucket]
  /\ mclosed = FALSE
  /\ stopCleanup = 0
  /\ bmu = 0
  /\ tickerStopped = TRUE
  /\ tickPending = FALSE
  /\ sweep = [pc |-> "unstarted", cutoff |-> 0, todo |-> {}, victim |-> "a"]
  /\ rdb = [k \in Keys |-> NoHash]
  /\ rclosed = FALSE
  /\ rclientCloses = 0
  /\ fclosed = FALSE
  /\ readers = {}
  /\ writer = 0
  /\ pc = [p \in Procs |-> "idle"]
  /\ op = [p \in Procs |-> NoOp]
  /\ call = [p \in Procs |-> "none"]
  /\ bkt = [p \in Procs |-> NoBucket]
  /\ tnow = [p \in Procs |-> 0]
  /\ ret = [p \in Procs |-> NoRet]
  /\ ncalls = [p \in Procs |-> 0]
  /\ late = [p \in Procs |-> FALSE]
  /\ reg = [p \in Procs |-> 0]
  /\ seen = [p \in Procs |-> NoSight]
  /\ born = [k \in Keys |-> 0]
  /\ closeCalls = 0
  /\ flips = 0
  /\ granted = [k \in Keys |-> 0]
  /\ minted = [k \in Keys |-> 0]
  /\ prior = [p \in Procs |-> NoPrior]

NextNew ==
  \/ \E o \in OptionArgs : NewInMemoryBackend(1, o)
  \/ \E o \in OptionArgs, url \in {"", "bad", "ok"}, ping \in BOOLEAN :
       NewRedisBackend(1, url, o, ping)
  \/ \E o \in OptionArgs, nilBackend \in BOOLEAN : New(1, nilBackend, o)

SpecNew == InitNew /\ [][NextNew]_vars

\* SpecConfig: a facade is built with nil or with a valid Config; its caller
\* calls GetConfig and assigns to the fields of the Config it got.
ConfigArgs == {NilOptions, OptionsArg(FALSE, 1, 1, 1, 1, 1)}

NextConfig ==
  \/ \E cfg \in ConfigArgs : New(1, FALSE, cfg)
  \/ kind = "facade" /\ Begin(1, FOp("GetConfig", "a", 0, 0, 0, "live"))
  \/ GetConfig(1)
  \/ \E f \in ConfigFields, v \in {0, 2} : SetField(1, f, v)

SpecConfig == InitNew /\ [][NextConfig]_vars

\* SpecKeys: a store in memory is built with max_keys = 1 and its caller takes
\* tokens under two keys while time passes.
KeysOptions ==
  {OptionsArg(FALSE, l, r, 1, 1, 1) : l \in 1..MaxLimit, r \in 1..MaxRefill}

NextKeys ==
  \/ \E o \in KeysOptions : NewInMemoryBackend(1, o)
  \/ \E k \in Keys : kind = "mem" /\ Begin(1, BOp("Take", k, 1, 0, 0, "live"))
  \/ TakeSteps(1)
  \/ \E d \in TimeSteps : kind = "mem" /\ Tick(d)

SpecKeys == InitNew /\ [][NextKeys]_vars

\* SpecLegacyRace: the goroutines call Take("a", 1) on one legacy store at the
\* same time, while time passes.
InitLegacyRace == InitCommon /\ kind = "legacy"

NextLegacyRace ==
  \/ \E p \in Procs : Begin(p, BOp("Take", "a", 1, 0, 0, "live"))
  \/ \E p \in Procs : LegacySteps(p)
  \/ \E d \in TimeSteps : Tick(d)

SpecLegacyRace == InitLegacyRace /\ [][NextLegacyRace]_vars

\* SpecWait: one goroutine takes tokens from key "a" through an open facade and
\* waits for one more, with a context that is never cancelled, while time
\* passes; nobody else uses the key.
WaitCalls == {FOp("Take", "a", 1, 0, 0, "live"), FOp("Wait", "a", 1, 0, 0, "live")}

InitWait == InitCommon /\ kind \in {"mem", "redis"}

NextWait ==
  \/ \E o \in WaitCalls : Begin(1, o)
  \/ FacadeStart(1)
  \/ WaitTick(1)
  \/ TakeSteps(1)
  \/ MemRead(1)
  \/ RedisStart(1)
  \/ RedisCmd(1)
  \/ \E d \in TimeSteps : Tick(d)

SpecWait == InitWait /\ [][NextWait]_vars

\* SpecLin: the store in memory holds the same bucket under "a" and under "b";
\* each goroutine makes one call on "a" (Take, GetInfo or SetLimit) while time
\* passes, and "b" is left alone: it keeps the bucket that "a" began with.
LinBuckets ==
  {b \in [Tokens : 0..MaxLimit, MaxTokens : 1..MaxLimit, RefillRate : 1..MaxRefill,
          LastRefill : {0}] : b.Tokens <= b.MaxTokens}

LinCalls ==
  {BOp("Take", "a", 1, 0, 0, "live"), BOp("GetInfo", "a", 0, 0, 0, "live")}
    \cup {BOp("SetLimit", "a", 0, l, r, "live") : l \in 1..MaxLimit, r \in 1..MaxRefill}

InitLin ==
  /\ now = 0
  /\ kind = "mem"
  /\ opts \in OptionSets
  /\ opts.DefaultLimit = MaxLimit /\ opts.DefaultRefill = 1
  /\ fcfg = [DefaultLimit |-> opts.DefaultLimit]
  /\ cfgs = <<>>
  /\ store = [k \in Keys |-> IF k = "a" THEN 1 ELSE 2]
  /\ \E b \in LinBuckets : heap = [i \in Ids |-> IF i \in {1, 2} THEN b ELSE ZeroBucket]
  /\ mclosed = FALSE
  /\ stopCleanup = 0
  /\ bmu = 0
  /\ tickerStopped = FALSE
  /\ tickPending = FALSE
  /\ sweep = [pc |-> "wait", cutoff |-> 0, todo |-> {}, victim |-> "a"]
  /\ rdb = [k \in Keys |-> NoHash]
  /\ rclosed = FALSE
  /\ rclientCloses = 0
  /\ fclosed = FALSE
  /\ readers = {}
  /\ writer = 0
  /\ pc = [p \in Procs |-> "idle"]
  /\ op = [p \in Procs |-> NoOp]
  /\ call = [p \in Procs |-> "none"]
  /\ bkt = [p \in Procs |-> NoBucket]
  /\ tnow = [p \in Procs |-> 0]
  /\ ret = [p \in Procs |-> NoRet]
  /\ ncalls = [p \in Procs |-> 0]
  /\ late = [p \in Procs |-> FALSE]
  /\ reg = [p \in Procs |-> 0]
  /\ seen = [p \in Procs |-> NoSight]
  /\ born = [k \in Keys |-> 0]
  /\ closeCalls = 0
  /\ flips = 0
  /\ granted = [k \in Keys |-> 0]
  /\ minted = [k \in Keys |-> 0]
  /\ prior = [p \in Procs |-> NoPrior]

NextLin ==
  \/ \E p \in Procs, o \in LinCalls : pc[p] = "idle" /\ Then(p, o)
  \/ \E p \in Procs : MemStart(p)
  \/ \E p \in Procs : MemLoad(p)
  \/ \E p \in Procs : MemRefill(p)
  \/ \E p \in Procs : MemConsume(p)
  \/ \E p \in Procs : MemRead(p)
  \/ \E p \in Procs : MemSet(p)
  \/ \E d \in TimeSteps : Tick(d)

SpecLin == InitLin /\ [][NextLin]_vars

\* One goroutine uses key "a" while the sweeper runs; the refill interval may
\* exceed twice the cleanup interval.
InitLastUse ==
  /\ now = 0
  /\ kind = "mem"
  /\ opts \in [DefaultLimit : {1}, DefaultRefill : {1, SlowRefill}, CleanupInterval : 1..MaxCleanup]
  /\ fcfg = [DefaultLimit |-> opts.DefaultLimit]
  /\ cfgs = <<>>
  /\ store = [k \in Keys |-> NoBucket]
  /\ heap = [i \in Ids |-> ZeroBucket]
  /\ mclosed = FALSE
  /\ stopCleanup = 0
  /\ bmu = 0
  /\ tickerStopped = FALSE
  /\ tickPending = FALSE
  /\ sweep = [pc |-> "wait", cutoff |-> 0, todo |-> {}, victim |-> "a"]
  /\ rdb = [k \in Keys |-> NoHash]
  /\ rclosed = FALSE
  /\ rclientCloses = 0
  /\ fclosed = FALSE
  /\ readers = {}
  /\ writer = 0
  /\ pc = [p \in Procs |-> "idle"]
  /\ op = [p \in Procs |-> NoOp]
  /\ call = [p \in Procs |-> "none"]
  /\ bkt = [p \in Procs |-> NoBucket]
  /\ tnow = [p \in Procs |-> 0]
  /\ ret = [p \in Procs |-> NoRet]
  /\ ncalls = [p \in Procs |-> 0]
  /\ late = [p \in Procs |-> FALSE]
  /\ reg = [p \in Procs |-> 0]
  /\ seen = [p \in Procs |-> NoSight]
  /\ born = [k \in Keys |-> 0]
  /\ closeCalls = 0
  /\ flips = 0
  /\ granted = [k \in Keys |-> 0]
  /\ minted = [k \in Keys |-> 0]
  /\ prior = [p \in Procs |-> NoPrior]

NextLastUse ==
  \/ \E o \in SweepCalls : Then(1, o)
  \/ TakeSteps(1)
  \/ MemRead(1)
  \/ Sweeper
  \/ \E d \in TimeSteps : Tick(d)

SpecLastUse == InitLastUse /\ [][NextLastUse]_vars

\* SpecBurst: the goroutines issue Take("a", 1) and GetInfo("a") again and again
\* on a store in memory that starts empty, while time passes; no sweep runs.
InitBurst == InitCommon /\ kind = "mem"

NextBurst ==
  \/ \E p \in Procs, o \in SweepCalls : Begin(p, o)
  \/ \E p \in Procs : TakeSteps(p)
  \/ \E p \in Procs : MemRead(p)
  \/ \E d \in TimeSteps : Tick(d)

SpecBurst == InitBurst /\ [][NextBurst]_vars

\* SpecCloseTwice: goroutine 2 calls the facade's Close again and again while
\* goroutine 1, which built the store and handed it to the facade, calls Close
\* and HealthCheck on the store itself.
InitCloseTwice == InitCommon /\ kind \in {"mem", "redis"}

NextCloseTwice ==
  \/ \E m \in {"Close", "HealthCheck"} : Begin(1, BOp(m, "a", 0, 0, 0, "live"))
  \/ Then(2, FOp("Close", "a", 0, 0, 0, "live"))
  \/ FacadeClose(2)
  \/ MemStart(1)
  \/ RedisStart(1)
  \/ RedisCmd(1)
  \/ \E p \in Procs : MemCloseSteps(p)
  \/ \E p \in Procs : RedisCloseSteps(p)

SpecCloseTwice == InitCloseTwice /\ [][NextCloseTwice]_vars

\* SpecLive: goroutine 1 calls the nine methods of a facade over the store in
\* memory, in any order, goroutine 2 calls Close, the one method that takes
\* r.mu for writing, at any moment and repeatedly, and the cleanup goroutine
\* sweeps.
\* At the start key "a" has a bucket made MaxMs ago, old enough to be swept.
\* Every goroutine that can take a step eventually takes one; a
\* Close that waits for r.mu gets it once the readers have left (a blocked
\* Lock keeps new readers out).
LiveCalls ==
  {FOp(m, "a", 1, 0, 0, "live") :
     m \in {"Take", "Reset", "GetInfo", "IsAllowed", "Wait", "HealthCheck", "GetConfig", "Close"}}
    \cup {FOp("TakeWithLimit", "a", 1, 1, 1, "live")}

InitLive ==
  /\ now = MaxMs
  /\ kind = "mem"
  /\ opts = [DefaultLimit |-> 1, DefaultRefill |-> 1, CleanupInterval |-> 1]
  /\ fcfg = [DefaultLimit |-> opts.DefaultLimit]
  /\ cfgs = <<>>
  /\ store = [k \in Keys |-> IF k = "a" THEN 1 ELSE NoBucket]
  /\ heap = [i \in Ids |-> IF i = 1 THEN newBucket(opts, 0) ELSE ZeroBucket]
  /\ mclosed = FALSE
  /\ stopCleanup = 0
  /\ bmu = 0
  /\ tickerStopped = FALSE
  /\ tickPending = FALSE
  /\ sweep = [pc |-> "wait", cutoff |-> 0, todo |-> {}, victim |-> "a"]
  /\ rdb = [k \in Keys |-> NoHash]
  /\ rclosed = FALSE
  /\ rclientCloses = 0
  /\ fclosed = FALSE
  /\ readers = {}
  /\ writer = 0
  /\ pc = [p \in Procs |-> "idle"]
  /\ op = [p \in Procs |-> NoOp]
  /\ call = [p \in Procs |-> "none"]
  /\ bkt = [p \in Procs |-> NoBucket]
  /\ tnow = [p \in Procs |-> 0]
  /\ ret = [p \in Procs |-> NoRet]
  /\ ncalls = [p \in Procs |-> 0]
  /\ late = [p \in Procs |-> FALSE]
  /\ reg = [p \in Procs |-> 0]
  /\ seen = [p \in Procs |-> NoSight]
  /\ born = [k \in Keys |-> 0]
  /\ closeCalls = 0
  /\ flips = 0
  /\ granted = [k \in Keys |-> 0]
  /\ minted = [k \in Keys |-> 0]
  /\ prior = [p \in Procs |-> NoPrior]


LiveBegin(p, o) ==
  /\ o.name = "GetConfig"
       => Len(cfgs) + Cardinality({q \in Procs : pc[q] = "f_start" /\ op[q].name = "GetConfig"})
            < MaxCopies
  /\ Begin(p, o)

LiveSteps(p) ==
  \/ FacadeStart(p)
  \/ GetConfig(p)
  \/ WaitTick(p)
  \/ MemSteps(p)
  \/ MemCloseSteps(p)

NextLive ==
  \/ \E o \in LiveCalls : LiveBegin(1, o)
  \/ LiveBegin(2, FOp("Close", "a", 1, 0, 0, "live"))
  \/ \E p \in Procs : LiveSteps(p)
  \/ \E p \in Procs : FacadeClose(p)
  \/ Sweeper
  \/ SweepStop

SpecLive ==
  /\ InitLive /\ [][NextLive]_vars
  /\ \A p \in Procs : WF_vars(LiveSteps(p)) /\ SF_vars(FacadeClose(p))
  /\ WF_vars(Sweeper \/ SweepStop)

\* SpecApart: goroutine 1 calls the methods of the store in memory on key "a"
\* while goroutine 2 calls Take on key "b" and time passes.
ApartCalls(k) ==
  {BOp("Take", k, 1, 0, 0, "live"), BOp("GetInfo", k, 0, 0, 0, "live"),
   BOp("Reset", k, 0, 0, 0, "live"), BOp("SetLimit", k, 0, MaxLimit, MaxRefill, "live")}

InitApart == InitCommon /\ kind = "mem" /\ opts.DefaultLimit = 1 /\ opts.DefaultRefill = 1

NextApart ==
  \/ \E o \in ApartCalls("a") : Begin(1, o)
  \/ Begin(2, BOp("Take", "b", 1, 0, 0, "live"))
  \/ \E p \in Procs : MemSteps(p)
  \/ \E d \in TimeSteps : Tick(d)

SpecApart == InitApart /\ [][NextApart]_vars

\* ------------------------------------------------- the properties
Done(p) == pc[p] = "done"

\* The three fields a caller can set or spend.
View(b) == <<b.Tokens, b.MaxTokens, b.RefillRate>>

\* The bucket of key k as a call arriving now would find it: a key without a
\* bucket is given a full one (getOrCreateBucket; the script's defaults).
KeyBucket(k) ==
  IF kind = "redis"
    THEN BucketOfScript(ScriptLoad(rdb[k], opts.DefaultLimit, opts.DefaultRefill, Unix(now)))
    ELSE IF store[k] = NoBucket THEN newBucket(opts, now) ELSE heap[store[k]]

\* That bucket with the refill pending at this moment committed.
KeyBucketRefilled(k) ==
  IF kind = "redis"
    THEN BucketOfScript(ScriptRefill(ScriptLoad(rdb[k], opts.DefaultLimit,
                                                opts.DefaultRefill, Unix(now)), Unix(now)))
    ELSE refillTokens(KeyBucket(k), now)

\* C1: every bucket in the map of the store in memory has
\* 0 <= Tokens <= MaxTokens, in every reachable state.
BucketsWithinCapacity ==
  \A k \in Keys :
    store[k] # NoBucket =>
      0 <= heap[store[k]].Tokens /\ heap[store[k]].Tokens <= heap[store[k]].MaxTokens

\* C2: when every one of the N goroutines has finished its Take("a", n) on a
\* key that had no bucket, exactly min(N, C div n) of the calls returned true.
ConcurrentTakesAdmitExactly ==
  (\A p \in Procs : Done(p)) =>
    Cardinality({p \in Procs : ret[p].allowed})
      = Min(NumProcs, opts.DefaultLimit \div op[1].tokens)

\* C3: of the Take(key, 1) calls made one after the other on a fresh key with
\* capacity C and interval R, none of the first C returns false; one that is
\* made less than R after the bucket was made returns true only if it is among
\* the first C; and one made at least R after the bucket's refill mark returns
\* true.
ExhaustionThenRefill ==
  (Done(1) /\ op[1].name = "Take") =>
    /\ ret[1].err = "nil"
    /\ ~ret[1].allowed => granted["a"] >= opts.DefaultLimit
    /\ (ret[1].allowed /\ seen[1].young) => granted["a"] <= opts.DefaultLimit
    /\ seen[1].due => ret[1].allowed

\* A Take after exhaustion that a refill let through.
RefilledTakeGranted ==
  /\ Done(1)
  /\ ret[1].allowed
  /\ seen[1].due
  /\ ~seen[1].young
  /\ granted["a"] = opts.DefaultLimit + 1

\* C4: a Take that asks for more tokens than the capacity the bucket had when
\* the Take read it never returns true.
OversizedTakeNeverGranted ==
  \A p \in Procs :
    (Done(p) /\ op[p].name = "Take" /\ op[p].tokens > seen[p].max) => ~ret[p].allowed

\* C5: on both stores, no step of a Take other than the one that grants changes
\* the key's tokens, capacity or refill interval, except to commit the refill
\* that is pending: a Take that returns false consumes nothing.
RejectedTakeKeepsBucket ==
  [][\A p \in Procs :
       (call[p] = "Take" /\ pc'[p] # pc[p] /\ ~ret'[p].allowed) =>
         View(KeyBucket(op[p].key))' \in
           {View(KeyBucket(op[p].key)), View(KeyBucketRefilled(op[p].key))}]_vars

\* A Take was refused for want of tokens while the bucket held some.
RejectedWithTokensLeft ==
  /\ Done(1)
  /\ op[1].name = "Take"
  /\ ret[1].err = "nil"
  /\ ~ret[1].allowed
  /\ View(KeyBucket("a"))[1] > 0

\* C6: under every interleaving of the clients' Takes on a key of the Redis
\* store, the tokens left in the hash plus the tokens granted equal the initial
\* capacity plus the tokens the refills minted; so no more is ever granted than
\* the capacity plus what was minted.
RedisTakesConserveTokens ==
  \A k \in Keys :
    /\ granted[k] <= opts.DefaultLimit + minted[k]
    /\ rdb[k].tokens # -1 =>
         /\ rdb[k].tokens >= 0
         /\ rdb[k].tokens + granted[k] = opts.DefaultLimit + minted[k]

\* Two clients were both granted, one of them after a refill, and emptied the key.
TwoClientsGranted ==
  \E p, q \in Procs :
    /\ p # q
    /\ Done(p) /\ ret[p].allowed
    /\ Done(q) /\ ret[q].allowed
    /\ minted["a"] > 0
    /\ rdb["a"].tokens = 0

\* The arguments the facade's Take refuses.
InvalidTake(o) ==
  \/ KeyLen(o.key) = 0
  \/ KeyLen(o.key) > MaxKeyLen
  \/ o.tokens <= 0
  \/ o.tokens > fcfg.DefaultLimit * TokenCeilingFactor

\* C7: on an open facade a Take with an empty key, a key longer than 256,
\* tokens <= 0 or tokens > 10 x DefaultLimit returns a validation error and
\* allowed = false without a call of the Backend, and no bucket changes while
\* it runs; a Take with tokens = 10 x DefaultLimit and a valid key is passed on
\* to the Backend.
FacadeTakeValidation ==
  /\ [](\A p \in Procs :
          (Done(p) /\ op[p].layer = "facade" /\ op[p].name = "Take") =>
            /\ InvalidTake(op[p]) =>
                 ret[p].err = "validation" /\ ~ret[p].allowed /\ ncalls[p] = 0
            /\ (~InvalidTake(op[p])
                  /\ op[p].tokens = fcfg.DefaultLimit * TokenCeilingFactor) =>
                 ret[p].err = "nil" /\ ncalls[p] = 1)
  /\ [][(~Idle(1) /\ InvalidTake(op[1])) => UNCHANGED <<store, heap, rdb>>]_vars

\* A Take above the ceiling was refused while the key had a bucket.
OverCeilingRefused ==
  /\ Done(1)
  /\ op[1].key = "a"
  /\ op[1].tokens = fcfg.DefaultLimit * TokenCeilingFactor + 1
  /\ ret[1].err = "validation"
  /\ store["a"] # NoBucket \/ rdb["a"].tokens # -1

\* C8: a call other than Close that began after the facade was closed returns
\* the backend-unavailable error.
ClosedRejectsEverything ==
  \A p \in Procs :
    (Done(p) /\ late[p] /\ op[p].name # "Close") => ret[p].err = "unavailable"

\* C9: however many goroutines call the facade's Close, closed goes from false
\* to true once, Backend.Close is called at most once, and every Close that
\* found the facade closed returns nil.
FacadeClosesOnce ==
  /\ flips <= 1
  /\ closeCalls <= 1
  /\ fclosed <=> flips = 1
  /\ \A p \in Procs :
       (Done(p) /\ op[p].name = "Close" /\ ncalls[p] = 0) => ret[p].err = "nil"

\* Two goroutines have closed the facade: one called the Backend, one did not.
TwoFacadeCloses ==
  \E p, q \in Procs :
    /\ Done(p) /\ op[p].name = "Close" /\ ncalls[p] = 1
    /\ Done(q) /\ op[q].name = "Close" /\ ncalls[q] = 0

\* C10: however many goroutines call Close on a store, every call returns nil,
\* the stop channel of the store in memory is closed at most once and the
\* Redis client is closed at most once.
BackendClosesOnce ==
  /\ stopCleanup <= 1
  /\ rclientCloses <= 1
  /\ \A p \in Procs : (Done(p) /\ op[p].name = "Close") => ret[p].err = "nil"

\* C11: SetLimit(key, L, R) on a key that holds a bucket, followed with no time
\* elapsed by GetInfo(key), makes GetInfo report max_tokens = L, refill_rate = R
\* and tokens = min(tokens before the SetLimit, L).
SetLimitRoundTrip ==
  (/\ Done(1) /\ op[1].name = "GetInfo" /\ ret[1].err = "nil"
   /\ prior[1].name = "SetLimit" /\ prior[1].ok
   /\ prior[1].had >= 0 /\ prior[1].at = now)
    => /\ ret[1].info.MaxTokens = prior[1].limit
       /\ ret[1].info.RefillRate = prior[1].refill
       /\ ret[1].info.Tokens = Min(prior[1].had, prior[1].limit)

\* The store holds state for key k.
Stored(k) == IF kind = "redis" THEN rdb[k] # NoHash ELSE store[k] # NoBucket

\* The refill mark stored under key k: the instant it denotes.
StoredMark(k) == IF kind = "redis" THEN rdb[k].last_refill ELSE heap[store[k]].LastRefill

\* C12: on both stores, no step of a SetLimit on a key that already holds state
\* changes the stored token count or the stored refill mark.
SetLimitKeepsTokensAndMark ==
  [][\A p \in Procs :
       (call[p] = "SetLimit" /\ pc'[p] # pc[p] /\ Stored(op[p].key))
         => /\ StoredTokens(op[p].key)' = StoredTokens(op[p].key)
            /\ StoredMark(op[p].key)' = StoredMark(op[p].key)]_vars

\* C13: on the store in memory, the Take or GetInfo that follows a Reset which
\* returned nil finds a bucket just made: full, with the default capacity and
\* the default refill interval.
ResetThenFreshBucket ==
  (/\ Done(1) /\ ret[1].err = "nil"
   /\ prior[1].name = "Reset" /\ prior[1].ok)
    => /\ op[1].name = "GetInfo" =>
            View(ret[1].info) = <<opts.DefaultLimit, opts.DefaultLimit, opts.DefaultRefill>>
       /\ op[1].name = "Take" =>
            /\ ret[1].allowed = (op[1].tokens <= opts.DefaultLimit)
            /\ seen[1].max = opts.DefaultLimit
            /\ View(KeyBucket("a")) =
                 <<opts.DefaultLimit - (IF ret[1].allowed THEN op[1].tokens ELSE 0),
                   opts.DefaultLimit, opts.DefaultRefill>>

\* A Take is granted right after the Reset of a bucket that had been lowered to
\* one token or none.
FreshAfterSpentReset ==
  /\ Done(1) /\ op[1].name = "Take" /\ ret[1].allowed
  /\ prior[1].name = "Reset" /\ prior[1].ok
  /\ prior[1].had \in 0..(opts.DefaultLimit - 1)
  /\ op[1].tokens = opts.DefaultLimit

\* C14: when a Take, GetInfo or SetLimit that found no state for its key has
\* returned nil, the bucket it made holds its max_tokens, less what that Take
\* itself was granted.
FirstTouchFull ==
  (/\ Done(1) /\ ret[1].err = "nil"
   /\ op[1].name \in {"Take", "GetInfo", "SetLimit"}
   /\ prior[1].cur = -1)
    => /\ Stored("a")
       /\ KeyBucket("a").Tokens
            + (IF op[1].name = "Take" /\ ret[1].allowed THEN op[1].tokens ELSE 0)
          = KeyBucket("a").MaxTokens

\* The bucket stored under key k, its refill mark in milliseconds.
StoredBucket(k) ==
  IF kind = "redis"
    THEN [Tokens |-> rdb[k].tokens, MaxTokens |-> rdb[k].max_tokens,
          RefillRate |-> rdb[k].refill_rate, LastRefill |-> rdb[k].last_refill * MsPerSecond]
    ELSE heap[store[k]]

\* The whole refill intervals of bucket b that have elapsed at time t.
Intervals(b, t) == GoDiv(t - b.LastRefill, b.RefillRate)

\* C15: the step of a GetInfo that reads the clock leaves under the key
\* min(max_tokens, tokens + whole intervals elapsed) tokens and, when an interval
\* has elapsed, a refill mark moved to the current time; the snapshot GetInfo
\* returns carries the token count stored at that point.
GetInfoCreditsRefill ==
  [][\A p \in Procs :
       LET k == op[p].key
           b == StoredBucket(k)
       IN /\ (/\ call[p] = "GetInfo" /\ pc[p] \in {"b_refill", "r_cmd"} /\ pc'[p] # pc[p]
               /\ Stored(k) /\ StoredTokens(k) >= 0)
              => /\ StoredTokens(k)' = Min(b.MaxTokens, b.Tokens + Intervals(b, now))
                 /\ Intervals(b, now) >= 1 => StoredBucket(k)'.LastRefill = now
          /\ (/\ call[p] = "GetInfo" /\ pc[p] # "done" /\ pc'[p] = "done"
               /\ ret'[p].err = "nil" /\ StoredTokens(k)' >= 0)
              => ret'[p].info.Tokens = StoredTokens(k)']_vars

\* C16: an IsAllowed(key, n) that returns without error answers true exactly
\* when the token count of GetInfo's snapshot is >= n, so always for n = 0, and
\* no step of an IsAllowed call lowers the key's token count.
IsAllowedReadsOnly ==
  /\ [](\A p \in Procs :
          (Done(p) /\ op[p].name = "IsAllowed" /\ ret[p].err = "nil")
            => /\ ret[p].allowed = (ret[p].info.Tokens >= op[p].tokens)
               /\ op[p].tokens = 0 => ret[p].allowed)
  /\ [][\A p \in Procs :
          (op[p].name = "IsAllowed" /\ ~Idle(p))
            => KeyBucket(op[p].key).Tokens' >= KeyBucket(op[p].key).Tokens]_vars

\* C17: on an open facade, a Wait(key, 0) whose context stays live returns nil
\* without having called the Backend (no poll of IsAllowed/GetInfo).
WaitZeroReturnsAtOnce ==
  \A p \in Procs :
    (/\ Done(p) /\ op[p].name = "Wait" /\ op[p].tokens = 0
     /\ op[p].ctx = "live" /\ ~late[p])
      => ret[p].err = "nil" /\ ncalls[p] = 0

\* C18: on an open facade, a Wait whose context was cancelled before the call
\* or while it was blocked in its select returns a context-cancelled error, never
\* nil; and once the context is cancelled the Wait does not go back to its
\* select after a poll, so it returns within one poll tick.
WaitHonoursCancel ==
  /\ [](\A p \in Procs :
          (Done(p) /\ op[p].name = "Wait" /\ op[p].ctx = "cancelled" /\ ~late[p])
            => ret[p].err = "cancelled")
  /\ [][\A p \in Procs :
          (/\ op[p].name = "Wait" /\ op[p].ctx = "cancelled"
           /\ ~Idle(p) /\ pc[p] # "w_select")
            => pc'[p] # "w_select"]_vars

\* A Wait that polled once in vain, was cancelled while blocked, polled again
\* and returned the context's error.
CancelledWhileBlocked ==
  /\ Done(1) /\ op[1].name = "Wait" /\ op[1].ctx = "cancelled"
  /\ ncalls[1] >= 2
  /\ ret[1].err = "cancelled"

\* The facade methods that hand their context to the Backend.
Delegating == {"Take", "TakeWithLimit", "Reset", "GetInfo", "IsAllowed", "HealthCheck"}

\* C19: on an open facade, a Take, TakeWithLimit, Reset, GetInfo, IsAllowed or
\* HealthCheck with valid arguments and an already cancelled context returns a
\* context-cancelled error, and no step of it changes whether the store holds
\* the key or the key's tokens, max_tokens and refill interval.
CancelledCallChangesNothing ==
  /\ [](\A p \in Procs :
          (/\ Done(p) /\ op[p].layer = "facade" /\ op[p].name \in Delegating
           /\ op[p].ctx = "cancelled" /\ ~late[p])
            => ret[p].err = "cancelled")
  /\ [][\A p \in Procs :
          (/\ ~Idle(p) /\ op[p].layer = "facade" /\ op[p].name \in Delegating
           /\ op[p].ctx = "cancelled" /\ ~late[p])
            => /\ Stored(op[p].key)' = Stored(op[p].key)
               /\ Stored(op[p].key) =>
                    View(StoredBucket(op[p].key))' = View(StoredBucket(op[p].key))]_vars

\* C20: applied to the same stored bucket at the same time, the Redis Take
\* script and the Take of the store in memory mint the same number of tokens,
\* give the same answer and leave the same token count.
ScriptMatchesMemoryTake ==
  [][(pc[1] = "idle" /\ pc'[1] = "done")
       => /\ refillTokens(heap[1], now).Tokens - heap[1].Tokens
               = ScriptMinted(rdb["a"], opts.DefaultLimit, opts.DefaultRefill, Unix(now))
          /\ ret'[1].allowed = ret'[2].allowed
          /\ heap'[1].Tokens = rdb'["a"].tokens]_vars

\* C21: on the Redis store, a GetInfo on a key that holds no state returns nil
\* and a snapshot with tokens = max_tokens = DefaultLimit and the default refill
\* interval.
AbsentKeyInfoFromDefaults ==
  \A p \in Procs :
    (/\ kind = "redis" /\ Done(p) /\ op[p].name = "GetInfo"
     /\ ret[p].err # "none" /\ rdb[op[p].key] = NoHash)
      => /\ ret[p].err = "nil"
         /\ View(ret[p].info) = <<opts.DefaultLimit, opts.DefaultLimit, opts.DefaultRefill>>

\* The bucket of key k is older than 2 x CleanupInterval now.
Expired(k) == now - heap[store[k]].LastRefill > 2 * opts.CleanupInterval

\* C22: when a sweep examines a key it marks the bucket for removal exactly when
\* the bucket's last refill is older than 2 x CleanupInterval at that time, and
\* the bucket a sweep removes from the map is older than 2 x CleanupInterval.
SweepRemovesExactlyExpired ==
  [][/\ \A k \in Keys :
          (/\ sweep.pc = "range" /\ sweep'.pc # "wait"
           /\ k \in sweep.todo /\ k \notin sweep'.todo)
            => ((sweep'.pc = "delete" /\ sweep'.victim = k) <=> Expired(k))
     /\ (sweep.pc = "delete" /\ sweep'.pc = "range" /\ store[sweep.victim] # NoBucket)
            => Expired(sweep.victim)]_vars

\* C23: once a goroutine has entered Close on the store in memory, the cleanup
\* goroutine eventually returns from cleanupRoutine, whether it was waiting, had
\* a tick pending or was in the middle of a sweep.
CloseStopsSweeper ==
  (\E p \in Procs : call[p] = "Close" /\ pc[p] = "b_start") ~> (sweep.pc = "stopped")

\* Close has closed b.stopCleanup while a sweep is about to delete a bucket.
CloseDuringSweep == stopCleanup > 0 /\ sweep.pc = "delete"

\* The arguments of TakeWithLimit call o pass the facade's checks.
CustomValid(o) ==
  /\ facadeValidateKey(o.key)
  /\ facadeValidateTokens(o.tokens, fcfg)
  /\ o.limit > 0
  /\ o.refill > 0

\* C24: a TakeWithLimit on an open limiter with invalid arguments returns
\* without a call of the Backend; with valid arguments its first Backend call is
\* SetLimit, Backend.Take is entered only from a SetLimit that has stored the
\* limit and the refill rate, and a SetLimit that returns an error ends the call
\* with that error and one Backend call made.
TakeWithLimitOrder ==
  /\ [](\A p \in Procs :
          (Done(p) /\ op[p].layer = "facade" /\ op[p].name = "TakeWithLimit"
             /\ ~CustomValid(op[p]))
            => (ncalls[p] = 0 /\ ret[p].err = "validation"))
  /\ [][\A p \in Procs :
          (op[p].layer = "facade" /\ op[p].name = "TakeWithLimit" /\ op'[p] = op[p])
            => /\ (pc[p] = "f_start" /\ pc'[p] = "b_start")
                    => (call'[p] = "SetLimit" /\ CustomValid(op[p]))
               /\ (call'[p] = "Take" /\ call[p] # "Take")
                    => /\ call[p] = "SetLimit"
                       /\ ncalls[p] = 1
                       /\ Stored(op[p].key)'
                       /\ StoredBucket(op[p].key)'.MaxTokens = op[p].limit
                       /\ StoredBucket(op[p].key)'.RefillRate = op[p].refill
               /\ (call[p] = "SetLimit" /\ pc'[p] = "done")
                    => (ret'[p].err # "nil" /\ ncalls'[p] = 1 /\ call'[p] = "none")]_vars

\* A TakeWithLimit whose SetLimit failed on a closed store: Take was not called.
SetLimitFailedNoTake ==
  /\ Done(1) /\ op[1].layer = "facade" /\ op[1].name = "TakeWithLimit"
  /\ CustomValid(op[1]) /\ ncalls[1] = 1 /\ ret[1].err = "unavailable"

\* C25: a constructor called with options or a config that are not nil and
\* have one of the five fields <= 0 returns an error and builds nothing (no
\* store, no facade, no cleanup goroutine, no ticker); an instance built from
\* an argument that is not nil holds exactly the argument's values, and only a
\* nil argument is replaced by the defaults.
ConstructorsRejectNonPositive ==
  \A p \in Procs :
    (Done(p) /\ op[p].layer = "new") =>
      LET a == op[p].options
          inst == IF op[p].name = "New" THEN fcfg ELSE opts IN
      /\ (~a.nil /\ (a.DefaultLimit <= 0 \/ a.DefaultRefill <= 0 \/ a.DefaultBurst <= 0
                        \/ a.MaxKeys <= 0 \/ a.CleanupInterval <= 0))
            => /\ ret[p].err \notin {"nil", "none"}
               /\ kind = "none"
               /\ opts = NilOptions /\ fcfg = NilOptions
               /\ sweep.pc = "unstarted" /\ tickerStopped
      /\ ret[p].err = "nil" => inst = (IF a.nil THEN DefaultOptions ELSE a)
      /\ (op[p].name = "NewInMemoryBackend" /\ ret[p].err = "nil") => sweep.pc = "wait"

\* NewInMemoryBackend was refused for max_keys = 0 alone.
RefusedForMaxKeys ==
  /\ Done(1) /\ op[1].layer = "new" /\ op[1].name = "NewInMemoryBackend"
  /\ op[1].options = OptionsArg(FALSE, 1, 1, 1, 0, 1)
  /\ ret[1].err = "validation" /\ kind = "none"

\* C26: once the facade is built, no step changes the Config it holds, an
\* assignment to a field of a Config that GetConfig returned included, and
\* every GetConfig returns a Config equal to the one the facade holds.
GetConfigReturnsCopy ==
  [][kind = "facade" =>
       /\ fcfg' = fcfg
       /\ \A p \in Procs :
            (pc[p] = "f_start" /\ op[p].name = "GetConfig" /\ pc'[p] = "done")
              => (IF ret'[p].ptr = 0 THEN fcfg' ELSE cfgs'[ret'[p].ptr]) = fcfg]_vars

\* The first Config returned was modified, and the second GetConfig returned
\* the facade's values.
ModifiedCopyThenGet ==
  /\ kind = "facade" /\ Len(cfgs) = 2
  /\ cfgs[1].DefaultLimit # fcfg.DefaultLimit /\ cfgs[1].MaxKeys # fcfg.MaxKeys
  /\ Done(1) /\ op[1].name = "GetConfig" /\ ret[1].ptr = 2 /\ cfgs[2] = fcfg

\* C27: the error returned for an invalid key or token count is a validation
\* error for IsValidationError, and the error returned by a closed limiter or
\* store is a backend error for IsBackendError.
RefusalsAreClassified ==
  \A p \in Procs :
    Done(p) =>
      /\ ret[p].err = "validation" => IsValidationError(ErrorValue(ret[p].err))
      /\ ret[p].err = "unavailable" => IsBackendError(ErrorValue(ret[p].err))

\* C28: the store in memory never holds more buckets than its max_keys.
BucketsWithinMaxKeys ==
  kind = "mem" => Cardinality({k \in Keys : store[k] # NoBucket}) <= opts.MaxKeys

\* C29: under concurrent Takes on one key of the legacy store, the bucket's
\* tokens are never negative and the tokens granted from the bucket never
\* exceed its capacity plus the tokens its refills added.
LegacyTakeIsSafe ==
  \A k \in Keys :
    (kind = "legacy" /\ store[k] # NoBucket) =>
      /\ heap[store[k]].Tokens >= 0
      /\ granted[k] <= heap[store[k]].MaxTokens + minted[k]

\* C30: the refill step of a Take, with t the time the step works with (read
\* by refillTokens itself in memory, at the entry of Take in the legacy store)
\* and count = floor((t - last refill) / refill interval): when count > 0 the
\* tokens become min(max_tokens, tokens + count) and the refill mark becomes t;
\* otherwise the bucket is left as it was.
RefillMintsWholeIntervals ==
  [][\A p \in Procs :
       (pc[p] \in {"b_refill", "l_refill"} /\ pc'[p] # pc[p]) =>
         LET b == heap[bkt[p]]
             after == heap'[bkt[p]]
             t == IF kind = "legacy" THEN tnow[p] ELSE now
             count == (t - b.LastRefill) \div b.RefillRate
         IN IF count > 0
              THEN /\ after.Tokens = Min(b.MaxTokens, b.Tokens + count)
                   /\ after.LastRefill = t
                   /\ after.MaxTokens = b.MaxTokens /\ after.RefillRate = b.RefillRate
              ELSE after = b]_vars

\* A refill in memory has just credited two whole intervals to an empty bucket
\* of capacity two or more.
RefilledTwoIntervals ==
  /\ kind = "mem" /\ pc[1] = "b_consume" /\ seen[1].due
  /\ heap[bkt[1]].LastRefill = now /\ now = 2 * heap[bkt[1]].RefillRate + born["a"]
  /\ heap[bkt[1]].Tokens = 2

\* The bucket stored under k holds n tokens once the refill intervals that
\* have elapsed by now are credited.
Available(k, n) ==
  /\ Stored(k)
  /\ LET b == StoredBucket(k)
     IN Min(b.MaxTokens, b.Tokens + (now - b.LastRefill) \div b.RefillRate) >= n

\* C31: a poll of Wait(key, n), 1 <= n <= max_tokens, that reads the clock
\* (refillTokens in memory, the HMGET on Redis) when enough refill intervals
\* have elapsed for n tokens finds the n tokens, and a poll that finds them
\* ends the Wait with nil: the Wait returns no later than the first poll tick
\* after the tokens have become available.
WaitReturnsAtNextPoll ==
  [][\A p \in Procs :
       (/\ op[p].layer = "facade" /\ op[p].name = "Wait" /\ op[p].ctx = "live"
        /\ call[p] = "GetInfo" /\ pc'[p] # pc[p]
        /\ Stored(op[p].key)
        /\ op[p].tokens >= 1 /\ op[p].tokens <= StoredBucket(op[p].key).MaxTokens)
         => /\ (pc[p] = "b_refill" /\ Available(op[p].key, op[p].tokens))
                 => StoredTokens(op[p].key)' >= op[p].tokens
            /\ (pc[p] = "b_read" /\ StoredTokens(op[p].key) >= op[p].tokens)
                 => (pc'[p] = "done" /\ ret'[p].err = "nil")
            /\ (pc[p] = "r_cmd" /\ Available(op[p].key, op[p].tokens))
                 => (pc'[p] = "done" /\ ret'[p].err = "nil")]_vars

\* Call o of the store in memory run alone on bucket b at time t: the bucket
\* it leaves and what it returns.
Alone(b, o, t) ==
  IF o.name = "Take"
    THEN [b |-> consume(refillTokens(b, t), o.tokens),
          r |-> Ok(hasTokens(refillTokens(b, t), o.tokens))]
  ELSE IF o.name = "GetInfo"
    THEN [b |-> refillTokens(b, t), r |-> Info(refillTokens(b, t))]
  ELSE [b |-> setLimit(b, o.limit, o.refill), r |-> Ok(FALSE)]

\* Goroutine p's call, then goroutine q's, each run alone at some time between
\* its own beginning and now, give the results both have returned and the
\* bucket the key holds.
InOrder(p, q) ==
  \E t \in prior[p].curAt..now, u \in prior[q].curAt..now :
    /\ t <= u
    /\ LET first == Alone(heap[store["b"]], op[p], t)
           second == Alone(first.b, op[q], u)
       IN /\ first.r = ret[p]
          /\ second.r = ret[q]
          /\ second.b = heap[store["a"]]

\* C32: when two concurrent calls among Take, GetInfo and SetLimit on a key
\* whose bucket exists have both returned, their results and the key's bucket
\* are those of the two calls run one after the other in some order.
CallsLinearizable ==
  (\A p \in Procs : Done(p)) => (InOrder(1, 2) \/ InOrder(2, 1))

\* C33: the bucket a Take consumes from is the bucket the map holds for the
\* key when the Take returns, a sweep that ran during the Take notwithstanding:
\* the next call on the key finds the tokens gone.
SweepKeepsConsumption ==
  [][\A p \in Procs :
       (/\ kind = "mem" /\ call[p] = "Take" /\ pc[p] = "b_consume" /\ pc'[p] = "done"
        /\ ret'[p].allowed)
         => /\ store'[op[p].key] = bkt[p]
            /\ heap'[store'[op[p].key]].Tokens = heap[bkt[p]].Tokens - op[p].tokens]_vars

\* C34: the sweep removes no bucket whose key was used less than twice the
\* cleanup interval ago: when a bucket leaves the map, the last Take or GetInfo
\* on its key, if it has returned, began at least 2 x CleanupInterval earlier.
SweepSparesRecentlyUsed ==
  [][\A k \in Keys :
       (/\ sweep.pc = "delete" /\ store[k] # NoBucket /\ store'[k] = NoBucket
        /\ Done(1) /\ op[1].key = k /\ ret[1].err = "nil")
         => prior[1].curAt <= now - opts.CleanupInterval * 2]_vars

\* C35: on the store in memory, with only Take and GetInfo on a key, the tokens
\* granted on the key since its bucket was made never exceed the capacity plus
\* one token per whole refill interval elapsed since then.
GrantsWithinRate ==
  \A k \in Keys :
    (kind = "mem" /\ store[k] # NoBucket)
      => granted[k] <= opts.DefaultLimit + (now - born[k]) \div opts.DefaultRefill

\* C36: on either store, an IsAllowed(key, n) with n >= 1 that returns nil
\* returns what a Take(key, n) would return from the state and at the clock
\* reading that the IsAllowed worked from.
IsAllowedAgreesWithTake ==
  [][\A p \in Procs :
       (/\ op[p].layer = "facade" /\ op[p].name = "IsAllowed" /\ op[p].tokens >= 1
        /\ call[p] = "GetInfo" /\ pc'[p] = "done" /\ ret'[p].err = "nil")
         => ret'[p].allowed =
              (/\ facadeValidateTokens(op[p].tokens, fcfg)
               /\ IF kind = "redis"
                    THEN TakeScript(rdb[op[p].key], op[p].tokens, opts.DefaultLimit,
                                    opts.DefaultRefill, Unix(tnow[p])).result = 1
                    ELSE hasTokens(heap[bkt[p]], op[p].tokens))]_vars

\* C37: while the facade's Close is inside Backend.Close, no other facade method
\* is between its closed check and the return of its Backend call; and once a
\* facade Close that called the Backend has returned, no facade method calls
\* the Backend again.
CloseExcludesCalls ==
  /\ [](\A p, q \in Procs :
          (op[p].layer = "facade" /\ op[p].name = "Close" /\ call[p] = "Close" /\ q # p)
            => ~(op[q].layer = "facade" /\ call[q] # "none"))
  /\ [][(closeCalls > 0 /\ writer = 0)
          => \A q \in Procs : (op[q].layer = "facade" /\ call[q] = "none") => call'[q] = "none"]_vars

\* The facade was closed through the Backend, and a Take that came after it
\* was refused without a Backend call.
ClosedThenRefused ==
  \E p, q \in Procs :
    /\ Done(p) /\ op[p].layer = "facade" /\ op[p].name = "Close" /\ ncalls[p] = 1
    /\ Done(q) /\ op[q].layer = "facade" /\ op[q].name = "Take"
    /\ ret[q].err = "unavailable" /\ ncalls[q] = 0

\* C38: a facade Close that returns nil either called Backend.Close itself and
\* got nil, or follows a facade Close that returned nil: so a nil from Close
\* means that Backend.Close was called and returned nil.
CloseNilMeansReleased ==
  \A p \in Procs :
    (Done(p) /\ op[p].layer = "facade" /\ op[p].name = "Close" /\ ret[p].err = "nil")
      => \/ ncalls[p] = 1
         \/ prior[p].name = "Close" /\ prior[p].ok

\* C39: no interleaving of the facade's methods with each other and with the
\* sweep of the store in memory blocks for ever: every call that has begun,
\* other than a Wait, eventually returns, Close included.
OperationsComplete ==
  \A p \in Procs : (pc[p] \notin {"idle", "done"} /\ op[p].name # "Wait") ~> Done(p)

\* A Close waits for r.mu while the other goroutine is inside the Backend and
\* the sweep is about to delete a bucket.
CloseWaitsForReader ==
  \E p \in Procs :
    /\ pc[p] = "f_start" /\ op[p].name = "Close"
    /\ readers # {}
    /\ sweep.pc = "delete"

\* C40: on the store in memory, no step of a Take, GetInfo, SetLimit or Reset
\* on one key changes another key's bucket: the other key is in the map after
\* the step exactly if it was before, with the same tokens, capacity, refill
\* interval and refill mark.
OtherKeysUntouched ==
  [][\A p \in Procs, k \in Keys :
       (/\ kind = "mem" /\ op[p].layer = "backend"
        /\ call[p] \in {"Take", "GetInfo", "SetLimit", "Reset"}
        /\ pc'[p] # pc[p] /\ op[p].key # k)
         => /\ (store'[k] = NoBucket) <=> (store[k] = NoBucket)
            /\ store[k] # NoBucket => heap'[store'[k]] = heap[store[k]]]_vars

\* Key "a" was reset while key "b" held a bucket that a Take had emptied.
ResetBesideEmptied ==
  /\ Done(1) /\ op[1].name = "Reset" /\ op[1].key = "a" /\ store["a"] = NoBucket
  /\ pc[2] = "b_consume"
  /\ store["b"] # NoBucket /\ heap[store["b"]].Tokens = 0

====
